---- MODULE Spec2Model ----
(***************************************************************************)
(* Tercios: the pipeline runner (Pipeline.Run over ConcurrencyRunner.Run), *)
(* the per-worker metrics and their merge, and the chaos engine's Apply.   *)
(*                                                                         *)
(* SpecRun   : W workers driving the pipeline and their exporters.         *)
(* SpecChaos : Engine.Apply over one batch, one (span, policy) per step.   *)
(***************************************************************************)
EXTENDS Integers, Sequences, FiniteSets, TLC

\* ------------------------------------------------------------------------
\* Bounds of the model
\* ------------------------------------------------------------------------
MaxWorkers == 2
MaxRequests == 2
\* cap on the iterations of a worker whose request count is unbounded (R = 0)
MaxIterations == 2
\* cap on the loop iterations of one run, all workers together
MaxLoad == 4
\* longest batch handed to Engine.Apply
MaxBatch == 2
\* longest policy list of an engine
MaxPolicies == 2
\* most actions applied one after the other to one span
MaxActions == 3

\* ------------------------------------------------------------------------
\* Variables
\* ------------------------------------------------------------------------
VARIABLES
    cfg,        \* run configuration: workers, requests, interval, duration, batchFactory
    pc,         \* worker -> position in the worker function
    iter,       \* worker -> loop counter i
    ret,        \* worker -> value the worker function returns
    exporter,   \* worker -> exporter obtained from the factory ("none" before / on failure)
    stats,      \* worker -> metrics.Stats of the worker (NilStats until assigned)
    shutdowns,  \* worker -> number of Shutdown calls on the worker's exporter
    ctxErr,     \* Err() of the errgroup context shared by the workers
    parentErr,  \* Err() of the context handed to Pipeline.Run
    groupErr,   \* errgroup's recorded first error
    runDone,    \* Pipeline.Run has returned
    runErr,     \* the error Pipeline.Run returned
    summary,    \* p.summary
    calls,      \* history: worker -> number of calls made on the inner exporter
    callErrs,   \* history: worker -> the errors its inner exporter calls returned
    firstFail,  \* history: <<worker, error>> of the first non-nil return seen by the group
    sawFault,   \* history: a factory, stage, conversion or exporter failure happened
    sawEmpty,   \* history: the pipeline produced an empty batch
    sawCap,     \* history: a worker observed the duration cap elapsed
    chaosCfg,   \* chaos.Config the engine is built from: PolicyMode, Policies
    engine,     \* the Engine: mode, policies
    deciderNil, \* the shouldApply argument of Apply is nil
    spans,      \* backing array of the slice handed to Apply
    heap,       \* attribute maps by address (Go maps are references)
    out,        \* Apply's local out: nil, or the backing array of the copy
    writable,   \* Apply's local writable: nil, or one flag per span
    current,    \* Apply's local current: pointer to the span being evaluated
    si,         \* index of the span being evaluated
    pj,         \* index of the policy being evaluated
    apc,        \* position in Apply
    result,     \* the slice Apply returned: "spans", "out", or Null before it returns
    spans0,     \* history: the input batch as it was when Apply was called
    log,        \* history: one entry per evaluated (span, policy) pair
    seed,       \* chaosCfg.Seed handed to NewSeededShouldApply
    asked,      \* the probabilities each worker asks the decider about, in order
    nworkers,   \* number of workers sharing the chaos stage and the factory
    run,        \* 1 for the first run of the configuration, 2 for the second
    rngSeed,    \* seed of the decider's rand.Source
    rngPos,     \* number of values drawn from the decider's rng
    mu,         \* holder of chaosStage.mu (NoWorker when free)
    wlock,      \* holder of the dry-run factory's lock (NoWorker when free)
    wpc,        \* worker -> position in its iteration
    answers,    \* worker -> the decisions it got, in order
    callLog,    \* history: the decider calls of this run in the order they ran
    written,    \* the chunks written to the JSON writer, in order
    firstRun,   \* history: answers and callLog of the first run
    stages,     \* p.stages of the Pipeline Process is called on
    initial,    \* the spans argument of Process
    batch,      \* Process's local batch
    stageIdx,   \* index of the stage the range loop of Process is at
    processRet, \* what Process returned: batch, err, done
    invoked,    \* history: one entry per stage.process call, in call order
    gen,        \* the Generator: MaxDepth, MaxSpans, ErrorRate
    nodes,      \* builder.nodes: the SpanBuilders with their spans, in creation order
    spansRemaining, \* emitTrace's local spansRemaining
    gpc,        \* position in GenerateBatch / emitTrace
    collected,  \* collector.spans: node indices in the order the spans ended
    genRet,     \* the batch GenerateBatch returned
    ghist,      \* history: span count drawn, budget skips, reason the edge loop ended
    appCfg,     \* the config.Config Validate is called on
    validateErr, \* what Validate returned (Pending before the call)
    definition, \* the scenario Definition the Generators are built from
    counter,    \* generator -> its atomic counter
    spc,        \* <<generator, worker>> -> position in GenerateBatch
    sequence,   \* <<generator, worker>> -> the local sequence of the call in progress
    callsMade,  \* <<generator, worker>> -> GenerateBatch calls started
    batches,    \* generator -> the calls that returned: worker, sequence, traceID, err
    collectors, \* the []*Stats slice handed to Summarize (NilStats for a nil entry)
    single, \* one collector that records every call
    recorded, \* history: every Record call in order: collector index, duration, error
    merged, \* what Summarize returned for collectors
    alone, \* what single.Summary() returned
    mergeDone, \* whether the two summaries were taken
    scenarioCfg, \* the scenario Config handed to Build
    built, \* the Definition Build returned (Edges empty before and after a failure)
    buildErr, \* what Build returned as its error
    emitted, \* the spans GenerateBatch returned
    bpc, \* position: config, built, generated
    rebuildIn, \* the batch orderForRebuild is called on
    orderedSpans, \* orderForRebuild's local ordered
    resultSpans, \* orderForRebuild's local result
    addedIDs, \* the SpanIDs whose added entry is true
    rpc, \* position in orderForRebuild: call, head, done
    lastLen, \* history: len(result) at the previous loop head, -1 before the first
    twinBatches, \* the batches handed to both engines, in order
    twinOut, \* the batches the engine in use has returned so far
    twinFirst, \* the batches the first engine returned
    edgeCfg, \* the scenario edge config of the definition in use
    stageSpans, \* the durations of the spans the scenario stage returned
    epc  \* position of the scenario stage call

runVars == <<cfg, pc, iter, ret, exporter, stats, shutdowns, ctxErr, parentErr,
             groupErr, runDone, runErr, summary, calls, callErrs, firstFail,
             sawFault, sawEmpty, sawCap>>

chaosVars == <<chaosCfg, engine, deciderNil, spans, heap, out, writable, current,
               si, pj, apc, result, spans0, log>>

sharedVars == <<seed, asked, nworkers, run, rngSeed, rngPos, mu, wlock, wpc, answers,
                callLog, written, firstRun>>

processVars == <<stages, initial, batch, stageIdx, processRet, invoked>>

genVars == <<gen, nodes, spansRemaining, gpc, collected, genRet, ghist>>

validateVars == <<appCfg, validateErr>>

scenarioVars == <<definition, counter, spc, sequence, callsMade, batches>>

mergeVars == <<collectors, single, recorded, merged, alone, mergeDone>>

dagVars == <<scenarioCfg, built, buildErr, emitted, bpc>>

rebuildVars == <<rebuildIn, orderedSpans, resultSpans, addedIDs, rpc, lastLen>>

twinVars == <<twinBatches, twinOut, twinFirst>>

edgeVars == <<edgeCfg, stageSpans, epc>>

laterVars == <<processVars, genVars, validateVars, scenarioVars,
               mergeVars, dagVars, rebuildVars, twinVars, edgeVars>>

\* what the actions of each later part leave alone
exceptProcess == <<runVars, chaosVars, sharedVars, genVars, validateVars, scenarioVars, mergeVars, dagVars, rebuildVars, twinVars, edgeVars>>
exceptGen == <<runVars, chaosVars, sharedVars, processVars, validateVars, scenarioVars, mergeVars, dagVars, rebuildVars, twinVars, edgeVars>>
exceptValidate == <<runVars, chaosVars, sharedVars, processVars, genVars, scenarioVars, mergeVars, dagVars, rebuildVars, twinVars, edgeVars>>
exceptScenario == <<runVars, chaosVars, sharedVars, processVars, genVars, validateVars, mergeVars, dagVars, rebuildVars, twinVars, edgeVars>>
exceptMerge == <<runVars, chaosVars, sharedVars, processVars, genVars, validateVars, scenarioVars, dagVars, rebuildVars, twinVars, edgeVars>>
exceptDag == <<runVars, chaosVars, sharedVars, processVars, genVars, validateVars, scenarioVars, mergeVars, rebuildVars, twinVars, edgeVars>>
exceptRebuild == <<runVars, chaosVars, sharedVars, processVars, genVars, validateVars, scenarioVars, mergeVars, dagVars, twinVars, edgeVars>>
exceptTwin == <<runVars, chaosVars, sharedVars, processVars, genVars, validateVars, scenarioVars, mergeVars, dagVars, rebuildVars, edgeVars>>
exceptEdge == <<runVars, chaosVars, sharedVars, processVars, genVars, validateVars, scenarioVars, mergeVars, dagVars, rebuildVars, twinVars>>

vars == <<runVars, chaosVars, sharedVars, laterVars>>

\* ------------------------------------------------------------------------
\* Errors
\* ------------------------------------------------------------------------
Nil == "nil"
Canceled == "context canceled"
DeadlineExceeded == "context deadline exceeded"
StageErr == "stage error"
ExportErr == "export error"
FactoryErr == "factory error"
ConvertErr == "convert error"

CtxErrors == {Canceled, DeadlineExceeded}
FaultErrors == {StageErr, ExportErr, FactoryErr, ConvertErr}

\* ------------------------------------------------------------------------
\* metrics: Stats, Record, Summarize
\* ------------------------------------------------------------------------
\* a nil *Stats entry of the stats slice
NilStats == [nil |-> TRUE]

NewStats == [durations |-> <<>>, successes |-> 0, failures |-> 0]

\* variant: a failed call is timed but counted in neither counter
RecordDropsFailure(s, duration, err) ==
    [durations |-> Append(s.durations, duration),
     successes |-> IF err # Nil THEN s.successes ELSE s.successes + 1,
     failures  |-> s.failures]

Record(s, duration, err) ==
    [durations |-> Append(s.durations, duration),
     successes |-> IF err # Nil THEN s.successes ELSE s.successes + 1,
     failures  |-> IF err # Nil THEN s.failures + 1 ELSE s.failures]

RECURSIVE SumSeq(_)
SumSeq(s) == IF s = <<>> THEN 0 ELSE Head(s) + SumSeq(Tail(s))

RECURSIVE totalOf(_)
totalOf(list) ==
    IF list = <<>> THEN 0
    ELSE (IF Head(list) = NilStats THEN 0 ELSE Len(Head(list).durations))
         + totalOf(Tail(list))

RECURSIVE successesOf(_)
successesOf(list) ==
    IF list = <<>> THEN 0
    ELSE (IF Head(list) = NilStats THEN 0 ELSE Head(list).successes)
         + successesOf(Tail(list))

RECURSIVE failuresOf(_)
failuresOf(list) ==
    IF list = <<>> THEN 0
    ELSE (IF Head(list) = NilStats THEN 0 ELSE Head(list).failures)
         + failuresOf(Tail(list))

RECURSIVE durationsOf(_)
durationsOf(list) ==
    IF list = <<>> THEN <<>>
    ELSE (IF Head(list) = NilStats THEN <<>> ELSE Head(list).durations)
         \o durationsOf(Tail(list))

\* int(float64(total-1) * 0.95)
p95Index(total) == ((total - 1) * 95) \div 100

ZeroSummary == [Total |-> 0, Successes |-> 0, Failures |-> 0,
                AvgLatency |-> 0, P95Latency |-> 0]

\* Stats.Summary: the summary of one collector
StatsSummary(s) ==
    LET total == Len(s.durations)
        durations == SortSeq(s.durations, LAMBDA a, b : a < b)
    IN  IF total = 0
        THEN [Total |-> 0, Successes |-> s.successes, Failures |-> s.failures,
              AvgLatency |-> 0, P95Latency |-> 0]
        ELSE [Total |-> total, Successes |-> s.successes, Failures |-> s.failures,
              AvgLatency |-> SumSeq(durations) \div total,
              P95Latency |-> durations[p95Index(total) + 1]]

\* variant: the merge reads the first non-nil collector only
RECURSIVE SummarizeFirst(_)
SummarizeFirst(list) ==
    IF list = <<>> THEN ZeroSummary
    ELSE IF Head(list) = NilStats THEN SummarizeFirst(Tail(list))
    ELSE StatsSummary(Head(list))

\* metrics.Summarize: the merge of the collectors, nil entries skipped
Summarize(list) ==
    LET total == totalOf(list)
        successes == successesOf(list)
        failures == failuresOf(list)
        durations == SortSeq(durationsOf(list), LAMBDA a, b : a < b)
    IN  IF total = 0
        THEN [Total |-> 0, Successes |-> successes, Failures |-> failures,
              AvgLatency |-> 0, P95Latency |-> 0]
        ELSE [Total |-> total, Successes |-> successes, Failures |-> failures,
              AvgLatency |-> SumSeq(durations) \div total,
              P95Latency |-> durations[p95Index(total) + 1]]

\* variant: the wrapper records the call but swallows its error
InstrumentedExportSpansSwallows(s, duration, err) ==
    [stats |-> IF s # NilStats THEN Record(s, duration, err) ELSE s, err |-> Nil]

\* InstrumentedExporter.ExportSpans: time the inner call, record it, pass the error on
InstrumentedExportSpans(s, duration, err) ==
    [stats |-> IF s # NilStats THEN Record(s, duration, err) ELSE s, err |-> err]

\* InstrumentedBatchExporter.ExportBatch: the same wrapper around a BatchExporter
InstrumentedExportBatch(s, duration, err) ==
    [stats |-> IF s # NilStats THEN Record(s, duration, err) ELSE s, err |-> err]

\* ------------------------------------------------------------------------
\* Pipeline.Run over ConcurrencyRunner.Run
\* ------------------------------------------------------------------------
Workers == 0 .. (cfg.workers - 1)

\* iterations the model lets a worker without a request limit make
IterationCap ==
    IF MaxLoad \div cfg.workers < MaxIterations
    THEN MaxLoad \div cfg.workers ELSE MaxIterations

\* the stats slice handed to Summarize, in workerID order
StatsList == [i \in 1 .. cfg.workers |-> stats[i - 1]]

RunInit ==
    /\ cfg \in [workers : 1 .. MaxWorkers,
                requests : 0 .. MaxRequests,
                interval : {0, 1},
                duration : {0, 1},
                batchFactory : BOOLEAN]
    /\ cfg.workers * cfg.requests <= MaxLoad
    /\ pc = [w \in Workers |-> "start"]
    /\ iter = [w \in Workers |-> 0]
    /\ ret = [w \in Workers |-> Nil]
    /\ exporter = [w \in Workers |-> "none"]
    /\ stats = [w \in Workers |-> NilStats]
    /\ shutdowns = [w \in Workers |-> 0]
    /\ ctxErr = Nil
    /\ parentErr = Nil
    /\ groupErr = Nil
    /\ runDone = FALSE
    /\ runErr = Nil
    /\ summary = ZeroSummary
    /\ calls = [w \in Workers |-> 0]
    /\ callErrs = [w \in Workers |-> <<>>]
    /\ firstFail = <<>>
    /\ sawFault = FALSE
    /\ sawEmpty = FALSE
    /\ sawCap = FALSE

\* variant: the request count is compared with > instead of >=
loopHeadOffByOne(requests, i, ctxE, requestDuration, elapsed) ==
    IF requests > 0 /\ i > requests THEN [stop |-> TRUE, ret |-> Nil, cap |-> FALSE]
    ELSE IF ctxE # Nil THEN [stop |-> TRUE, ret |-> ctxE, cap |-> FALSE]
    ELSE IF requestDuration > 0 /\ elapsed THEN [stop |-> TRUE, ret |-> Nil, cap |-> TRUE]
    ELSE [stop |-> FALSE, ret |-> Nil, cap |-> FALSE]

\* variant: a request count of 0 is taken as a limit of zero requests
loopHeadZeroIsLimit(requests, i, ctxE, requestDuration, elapsed) ==
    IF i >= requests THEN [stop |-> TRUE, ret |-> Nil, cap |-> FALSE]
    ELSE IF ctxE # Nil THEN [stop |-> TRUE, ret |-> ctxE, cap |-> FALSE]
    ELSE IF requestDuration > 0 /\ elapsed THEN [stop |-> TRUE, ret |-> Nil, cap |-> TRUE]
    ELSE [stop |-> FALSE, ret |-> Nil, cap |-> FALSE]

\* variant: the elapsed duration cap is returned as a deadline error
loopHeadCapIsError(requests, i, ctxE, requestDuration, elapsed) ==
    IF requests > 0 /\ i >= requests THEN [stop |-> TRUE, ret |-> Nil, cap |-> FALSE]
    ELSE IF ctxE # Nil THEN [stop |-> TRUE, ret |-> ctxE, cap |-> FALSE]
    ELSE IF requestDuration > 0 /\ elapsed
         THEN [stop |-> TRUE, ret |-> DeadlineExceeded, cap |-> TRUE]
    ELSE [stop |-> FALSE, ret |-> Nil, cap |-> FALSE]

\* variant: the context is consulted before the request count
loopHeadContextFirst(requests, i, ctxE, requestDuration, elapsed) ==
    IF ctxE # Nil THEN [stop |-> TRUE, ret |-> ctxE, cap |-> FALSE]
    ELSE IF requests > 0 /\ i >= requests THEN [stop |-> TRUE, ret |-> Nil, cap |-> FALSE]
    ELSE IF requestDuration > 0 /\ elapsed THEN [stop |-> TRUE, ret |-> Nil, cap |-> TRUE]
    ELSE [stop |-> FALSE, ret |-> Nil, cap |-> FALSE]

\* the stop conditions at the loop head, in source order
loopHead(requests, i, ctxE, requestDuration, elapsed) ==
    IF requests > 0 /\ i >= requests THEN [stop |-> TRUE, ret |-> Nil, cap |-> FALSE]
    ELSE IF ctxE # Nil THEN [stop |-> TRUE, ret |-> ctxE, cap |-> FALSE]
    ELSE IF requestDuration > 0 /\ elapsed THEN [stop |-> TRUE, ret |-> Nil, cap |-> TRUE]
    ELSE [stop |-> FALSE, ret |-> Nil, cap |-> FALSE]

\* variant: the worker sleeps after every iteration, the last one included
shouldPaceAlways(requestInterval, requests, i) == requestInterval > 0

\* whether the worker sleeps after iteration i
shouldPace(requestInterval, requests, i) ==
    requestInterval > 0 /\ (requests <= 0 \/ i < requests - 1)

\* variant: Shutdown is called at the end of the function body, not deferred,
\* so a return with an error skips it
returnToSkipsOnError(exp, err) ==
    IF exp = "none" \/ err # Nil THEN "returned" ELSE "exit"

\* where a return statement leads: to the deferred Shutdown when one is registered
\* (the defer statement follows the successful factory call)
returnTo(exp, err) == IF exp = "none" THEN "returned" ELSE "exit"

\* a return statement of the worker function: the loop variable goes out of scope
Return(w, err) ==
    /\ ret' = [ret EXCEPT ![w] = err]
    /\ pc' = [pc EXCEPT ![w] = returnTo(exporter[w], err)]
    /\ iter' = [iter EXCEPT ![w] = 0]

\* the end of an iteration: the pacing decision, then i++
EndIteration(w) ==
    /\ IF shouldPace(cfg.interval, cfg.requests, iter[w])
       THEN /\ pc' = [pc EXCEPT ![w] = "sleep"]
            /\ UNCHANGED iter
       ELSE /\ pc' = [pc EXCEPT ![w] = "head"]
            /\ iter' = [iter EXCEPT ![w] = iter[w] + 1]
    /\ UNCHANGED ret

\* the goroutine of worker w begins: NewStats, then the factory call
WorkerStart(w) ==
    /\ pc[w] = "start"
    /\ stats' = [stats EXCEPT ![w] = NewStats]
    /\ \E ok \in BOOLEAN :
         IF ok
         THEN /\ exporter' = [exporter EXCEPT ![w] = IF cfg.batchFactory THEN "batch" ELSE "span"]
              /\ pc' = [pc EXCEPT ![w] = "head"]
              /\ UNCHANGED <<ret, iter, sawFault>>
         ELSE /\ Return(w, FactoryErr)
              /\ sawFault' = TRUE
              /\ UNCHANGED exporter
    /\ UNCHANGED <<cfg, shutdowns, ctxErr, parentErr, groupErr, runDone,
                   runErr, summary, calls, callErrs, firstFail, sawEmpty, sawCap>>
    /\ UNCHANGED <<chaosVars, sharedVars, laterVars>>

\* variant: the exporter is called whatever the length of the batch
exportsBatchAlways(batchLen) == TRUE

\* if len(batch) > 0: only a non-empty batch reaches the exporter
exportsBatch(batchLen) == batchLen > 0

\* len(batch) for the outcomes of p.Process that return no error
batchLenOf(outcome) == IF outcome = "empty" THEN 0 ELSE 1

\* one pass from the loop head: the three stop checks, then p.Process(ctx, nil)
LoopHead(w) ==
    /\ pc[w] = "head"
    /\ \E elapsed \in (IF cfg.duration > 0 THEN BOOLEAN ELSE {FALSE}) :
         LET h == loopHead(cfg.requests, iter[w], ctxErr, cfg.duration, elapsed)
         IN  IF h.stop
             THEN /\ Return(w, h.ret)
                  /\ sawCap' = (sawCap \/ h.cap)
                  /\ UNCHANGED <<sawFault, sawEmpty>>
             ELSE /\ cfg.requests > 0 \/ iter[w] < IterationCap
                  /\ UNCHANGED sawCap
                  /\ \E outcome \in {"error", "empty", "spans"} :
                       CASE outcome = "error" ->
                              /\ Return(w, StageErr)
                              /\ sawFault' = TRUE
                              /\ UNCHANGED sawEmpty
                         [] outcome # "error" ->
                              /\ sawEmpty' = (sawEmpty \/ outcome = "empty")
                              /\ UNCHANGED sawFault
                              /\ IF exportsBatch(batchLenOf(outcome))
                                 THEN /\ pc' = [pc EXCEPT ![w] = "export"]
                                      /\ UNCHANGED <<iter, ret>>
                                 ELSE EndIteration(w)
    /\ UNCHANGED <<cfg, exporter, stats, shutdowns, ctxErr, parentErr, groupErr,
                   runDone, runErr, summary, calls, callErrs, firstFail>>
    /\ UNCHANGED <<chaosVars, sharedVars, laterVars>>

\* errors the inner exporter can return: its own, or the context's once it is done
ExportOutcomes == {Nil, ExportErr} \cup {ctxErr}

\* the time the inner exporter call of worker w takes
callDuration(w) == w + 1

\* the export of a non-empty batch through the worker's instrumented exporter
ExportStep(w) ==
    /\ pc[w] = "export"
    /\ \E converted \in (IF exporter[w] = "span" THEN BOOLEAN ELSE {TRUE}) :
         IF ~converted
         THEN /\ Return(w, ConvertErr)
              /\ sawFault' = TRUE
              /\ UNCHANGED <<stats, calls, callErrs>>
         ELSE \E err \in ExportOutcomes :
                LET r == IF exporter[w] = "batch"
                         THEN InstrumentedExportBatch(stats[w], callDuration(w), err)
                         ELSE InstrumentedExportSpans(stats[w], callDuration(w), err)
                IN  /\ stats' = [stats EXCEPT ![w] = r.stats]
                    /\ calls' = [calls EXCEPT ![w] = calls[w] + 1]
                    /\ callErrs' = [callErrs EXCEPT ![w] =
                                       IF err # Nil THEN Append(callErrs[w], err)
                                       ELSE callErrs[w]]
                    /\ sawFault' = (sawFault \/ err \in FaultErrors)
                    /\ IF r.err # Nil
                       THEN Return(w, r.err)
                       ELSE EndIteration(w)
    /\ UNCHANGED <<cfg, exporter, shutdowns, ctxErr, parentErr, groupErr, runDone,
                   runErr, summary, firstFail, sawEmpty, sawCap>>
    /\ UNCHANGED <<chaosVars, sharedVars, laterVars>>

\* select { case <-ctx.Done(): return ctx.Err(); case <-time.After(requestInterval): }
PacingSleep(w) ==
    /\ pc[w] = "sleep"
    /\ \/ /\ ctxErr # Nil
          /\ Return(w, ctxErr)
       \/ /\ pc' = [pc EXCEPT ![w] = "head"]
          /\ iter' = [iter EXCEPT ![w] = iter[w] + 1]
          /\ UNCHANGED ret
    /\ UNCHANGED <<cfg, exporter, stats, shutdowns, ctxErr, parentErr, groupErr,
                   runDone, runErr, summary, calls, callErrs, firstFail, sawFault,
                   sawEmpty, sawCap>>
    /\ UNCHANGED <<chaosVars, sharedVars, laterVars>>

\* defer exporter.Shutdown(ctx), run as the worker function returns
DeferredShutdown(w) ==
    /\ pc[w] = "exit"
    /\ shutdowns' = [shutdowns EXCEPT ![w] = shutdowns[w] + 1]
    /\ pc' = [pc EXCEPT ![w] = "returned"]
    /\ UNCHANGED <<cfg, iter, ret, exporter, stats, ctxErr, parentErr, groupErr,
                   runDone, runErr, summary, calls, callErrs, firstFail, sawFault,
                   sawEmpty, sawCap>>
    /\ UNCHANGED <<chaosVars, sharedVars, laterVars>>

\* variant: every non-nil error overwrites the recorded one
groupRecordLast(held, err) == IF err # Nil THEN err ELSE held

\* errgroup: the first non-nil error is kept
groupRecord(held, err) == IF err # Nil /\ held = Nil THEN err ELSE held

\* errgroup: the first non-nil error cancels the group's context
groupCancel(held, ctxE, err) ==
    IF err # Nil /\ held = Nil /\ ctxE = Nil THEN Canceled ELSE ctxE

\* the goroutine started by group.Go sees the value the worker function returned
GroupReturn(w) ==
    /\ pc[w] = "returned"
    /\ pc' = [pc EXCEPT ![w] = "done"]
    /\ groupErr' = groupRecord(groupErr, ret[w])
    /\ ctxErr' = groupCancel(groupErr, ctxErr, ret[w])
    /\ firstFail' = IF ret[w] # Nil /\ firstFail = <<>> THEN <<w, ret[w]>> ELSE firstFail
    /\ UNCHANGED <<cfg, iter, ret, exporter, stats, shutdowns, parentErr, runDone,
                   runErr, summary, calls, callErrs, sawFault, sawEmpty, sawCap>>
    /\ UNCHANGED <<chaosVars, sharedVars, laterVars>>

\* the context given to Run is cancelled (signal) or its deadline expires
ParentCancel ==
    /\ parentErr = Nil
    /\ ~runDone
    /\ \E e \in CtxErrors :
         /\ parentErr' = e
         /\ ctxErr' = IF ctxErr = Nil THEN e ELSE ctxErr
    /\ UNCHANGED <<cfg, pc, iter, ret, exporter, stats, shutdowns, groupErr,
                   runDone, runErr, summary, calls, callErrs, firstFail, sawFault,
                   sawEmpty, sawCap>>
    /\ UNCHANGED <<chaosVars, sharedVars, laterVars>>

\* variant: Wait returns as soon as one worker returned
waitReturnsFirst(positions) == \E w \in DOMAIN positions : positions[w] = "done"

\* group.Wait() returns once every worker returned
waitReturns(positions) == \A w \in DOMAIN positions : positions[w] = "done"

\* err := runner.Run(...); p.summary = metrics.Summarize(stats); return err
RunFinish ==
    /\ ~runDone
    /\ waitReturns(pc)
    /\ summary' = Summarize(StatsList)
    /\ runErr' = groupErr
    /\ runDone' = TRUE
    /\ ctxErr' = IF ctxErr = Nil THEN Canceled ELSE ctxErr
    /\ UNCHANGED <<cfg, pc, iter, ret, exporter, stats, shutdowns, parentErr,
                   groupErr, calls, callErrs, firstFail, sawFault, sawEmpty, sawCap>>
    /\ UNCHANGED <<chaosVars, sharedVars, laterVars>>

NextRun ==
    \/ \E w \in Workers : WorkerStart(w)
    \/ \E w \in Workers : LoopHead(w)
    \/ \E w \in Workers : ExportStep(w)
    \/ \E w \in Workers : PacingSleep(w)
    \/ \E w \in Workers : DeferredShutdown(w)
    \/ \E w \in Workers : GroupReturn(w)
    \/ ParentCancel
    \/ RunFinish

\* ------------------------------------------------------------------------
\* chaos: attribute values, spans, policies
\* ------------------------------------------------------------------------
Millisecond == 1000000

Null == "null"

\* a nil slice, and a pointer that refers to nothing
NilSlice == <<>>
NilPtr == [arr |-> "nil", idx |-> 0]

\* attribute.Value: a type tag and the value (written as a token)
StringValue(v) == [type |-> "STRING", val |-> v]
Int64Value(v) == [type |-> "INT64", val |-> v]

\* the nil map, and the address no map lives at
EmptyMap == [k \in {} |-> StringValue("")]
NilRef == 0

\* the attribute maps of the input spans, by address; spans may share a map
InputHeap ==
    << ("http.route" :> StringValue("/posts")) @@ ("http.response.status_code" :> Int64Value("200")),
       ("service.name" :> StringValue("post-service")),
       ("service.name" :> StringValue("user-service")) @@ ("http.route" :> Int64Value("200")) >>

NumInputMaps == Len(InputHeap)

\* model.Span: the fields Apply reads or writes; times in nanoseconds
SpanPost ==
    [Name |-> "POST /posts", Kind |-> "server",
     StartTime |-> 0, EndTime |-> 10 * Millisecond,
     Attributes |-> 1, ResourceAttributes |-> 2,
     StatusCode |-> "Ok", StatusDescription |-> ""]

SpanGet ==
    [Name |-> "GET /users", Kind |-> "client",
     StartTime |-> 0, EndTime |-> 3 * Millisecond,
     Attributes |-> 3, ResourceAttributes |-> 2,
     StatusCode |-> "Ok", StatusDescription |-> ""]

SpanBare ==
    [Name |-> "job", Kind |-> "internal",
     StartTime |-> Millisecond, EndTime |-> 2 * Millisecond,
     Attributes |-> NilRef, ResourceAttributes |-> NilRef,
     StatusCode |-> "Unset", StatusDescription |-> ""]

SpanPool == {SpanPost, SpanGet, SpanBare}

\* compiledAction
SetAttribute(scope, name, value) ==
    [kind |-> "set_attribute", scope |-> scope, name |-> name, value |-> value,
     statusCode |-> "Unset", statusMessage |-> "", latencyDelta |-> 0]
SetStatus(code, message) ==
    [kind |-> "set_status", scope |-> "", name |-> "", value |-> StringValue(""),
     statusCode |-> code, statusMessage |-> message, latencyDelta |-> 0]
AddLatency(delta) ==
    [kind |-> "add_latency", scope |-> "", name |-> "", value |-> StringValue(""),
     statusCode |-> "Unset", statusMessage |-> "", latencyDelta |-> delta]

\* compiledMatch
Match(serviceName, spanName, spanKinds, attributes) ==
    [serviceName |-> serviceName, spanName |-> spanName,
     spanKinds |-> spanKinds, attributes |-> attributes]

\* compiledPolicy; the probability, a float64 in [0, 1], is written in percent
PolStatus ==
    [probability |-> 100,
     match |-> Match("post-service", "", {}, EmptyMap),
     actions |-> << SetStatus("Error", "simulated"),
                    SetAttribute("span", "http.response.status_code", Int64Value("500")) >>]

PolRoute ==
    [probability |-> 50,
     match |-> Match("", "", {}, ("http.route" :> StringValue("/posts"))),
     actions |-> << SetAttribute("span", "http.route", StringValue("/chaos")) >>]

PolAll ==
    [probability |-> 100,
     match |-> Match("", "", {}, EmptyMap),
     actions |-> << SetAttribute("resource", "service.name", StringValue("chaos")),
                    AddLatency(-20 * Millisecond) >>]

PolNever ==
    [probability |-> 0,
     match |-> Match("", "", {}, ("service.name" :> StringValue("post-service"))),
     actions |-> << SetStatus("Unset", "") >>]

PolClient ==
    [probability |-> 50,
     match |-> Match("user-service", "GET /users", {"client"}, EmptyMap),
     actions |-> << AddLatency(5 * Millisecond), SetStatus("Error", "slow") >>]

PolicyPool == {PolStatus, PolRoute, PolAll, PolNever, PolClient}

PolicyModes == {"", "all", "first_match"}

RECURSIVE SeqsUpTo(_, _)
SeqsUpTo(S, n) ==
    IF n = 0 THEN {<<>>}
    ELSE LET shorter == SeqsUpTo(S, n - 1)
         IN  shorter \cup {Append(q, x) : q \in shorter, x \in S}

\* ------------------------------------------------------------------------
\* chaos: NewEngine and the helpers of Apply
\* ------------------------------------------------------------------------
\* NewEngine: an empty policy_mode means all
NewEngine(c) ==
    [mode |-> IF c.PolicyMode = "" THEN "all" ELSE c.PolicyMode,
     policies |-> c.Policies]

\* the map an address refers to; reads of a nil map find nothing
MapAt(h, ref) == IF ref = NilRef THEN EmptyMap ELSE h[ref]

matchesTypedValue(got, want) ==
    IF got.type # want.type THEN FALSE
    ELSE IF want.type \in {"STRING", "BOOL", "INT64", "FLOAT64"}
         THEN got.val = want.val
         ELSE FALSE

hasServiceName(span, h, serviceName) ==
    LET attrs == MapAt(h, span.Attributes)
        res == MapAt(h, span.ResourceAttributes)
    IN  \/ /\ "service.name" \in DOMAIN attrs
           /\ attrs["service.name"].type = "STRING"
           /\ attrs["service.name"].val = serviceName
        \/ /\ "service.name" \in DOMAIN res
           /\ res["service.name"].type = "STRING"
           /\ res["service.name"].val = serviceName

\* variant: a match attribute may be satisfied by either scope
matchesEitherScope(span, h, match) ==
    LET attrs == MapAt(h, span.Attributes)
        res == MapAt(h, span.ResourceAttributes)
    IN  /\ ~(match.spanName # "" /\ span.Name # match.spanName)
        /\ ~(match.spanKinds # {} /\ span.Kind \notin match.spanKinds)
        /\ ~(match.serviceName # "" /\ ~hasServiceName(span, h, match.serviceName))
        /\ \A key \in DOMAIN match.attributes :
              \/ /\ key \in DOMAIN attrs
                 /\ matchesTypedValue(attrs[key], match.attributes[key])
              \/ /\ key \in DOMAIN res
                 /\ matchesTypedValue(res[key], match.attributes[key])

matches(span, h, match) ==
    LET attrs == MapAt(h, span.Attributes)
        res == MapAt(h, span.ResourceAttributes)
    IN  /\ ~(match.spanName # "" /\ span.Name # match.spanName)
        /\ ~(match.spanKinds # {} /\ span.Kind \notin match.spanKinds)
        /\ ~(match.serviceName # "" /\ ~hasServiceName(span, h, match.serviceName))
        /\ \A key \in DOMAIN match.attributes :
              IF key \in DOMAIN attrs
              THEN matchesTypedValue(attrs[key], match.attributes[key])
              ELSE /\ key \in DOMAIN res
                   /\ matchesTypedValue(res[key], match.attributes[key])

\* variant: the decider is asked before the bounds are looked at
shouldApplyPolicyAsksFirst(probability, shouldApplyIsNil, decision) ==
    IF shouldApplyIsNil
    THEN [apply |-> probability >= 100, consulted |-> FALSE]
    ELSE IF probability <= 0 THEN [apply |-> FALSE, consulted |-> TRUE]
    ELSE IF probability >= 100 THEN [apply |-> TRUE, consulted |-> TRUE]
    ELSE [apply |-> decision, consulted |-> TRUE]

\* shouldApplyPolicy; decision is what the decider returns if it is called
shouldApplyPolicy(probability, shouldApplyIsNil, decision) ==
    IF probability <= 0 THEN [apply |-> FALSE, consulted |-> FALSE]
    ELSE IF probability >= 100 THEN [apply |-> TRUE, consulted |-> FALSE]
    ELSE IF shouldApplyIsNil THEN [apply |-> FALSE, consulted |-> FALSE]
    ELSE [apply |-> decision, consulted |-> TRUE]

\* cloneMap: a new map with the same entries (empty for a nil or empty map)
cloneMap(values) ==
    IF Cardinality(DOMAIN values) = 0 THEN EmptyMap
    ELSE [k \in DOMAIN values |-> values[k]]

\* variant: a zero delta is not short-cut, so it can clamp
applyLatencyNoShortcut(span, delta) ==
    LET newEnd == span.EndTime + delta
    IN  IF ~(newEnd > span.StartTime)
        THEN [span EXCEPT !.EndTime = span.StartTime + 1 * Millisecond]
        ELSE [span EXCEPT !.EndTime = newEnd]

\* variant: the clamp sets the end to the start
applyLatencyClampsToStart(span, delta) ==
    IF delta = 0 THEN span
    ELSE LET newEnd == span.EndTime + delta
         IN  IF ~(newEnd > span.StartTime)
             THEN [span EXCEPT !.EndTime = span.StartTime]
             ELSE [span EXCEPT !.EndTime = newEnd]

applyLatency(span, delta) ==
    IF delta = 0 THEN span
    ELSE LET newEnd == span.EndTime + delta
         IN  IF ~(newEnd > span.StartTime)
             THEN [span EXCEPT !.EndTime = span.StartTime + 1 * Millisecond]
             ELSE [span EXCEPT !.EndTime = newEnd]

\* variant: the attribute is written whether or not the key exists
applySetAttributeAlways(span, h, action) ==
    IF action.name = "" THEN h
    ELSE IF action.scope = "span"
         THEN [h EXCEPT ![span.Attributes] = (action.name :> action.value) @@ @]
    ELSE IF action.scope = "resource"
         THEN [h EXCEPT ![span.ResourceAttributes] = (action.name :> action.value) @@ @]
    ELSE h

\* applySetAttribute: the heap after the write, if any
applySetAttribute(span, h, action) ==
    IF action.name = "" THEN h
    ELSE IF action.scope = "span"
         THEN IF action.name \notin DOMAIN MapAt(h, span.Attributes) THEN h
              ELSE [h EXCEPT ![span.Attributes] =
                        [@ EXCEPT ![action.name] = action.value]]
    ELSE IF action.scope = "resource"
         THEN IF action.name \notin DOMAIN MapAt(h, span.ResourceAttributes) THEN h
              ELSE [h EXCEPT ![span.ResourceAttributes] =
                        [@ EXCEPT ![action.name] = action.value]]
    ELSE h

\* applyAction on the span a pointer refers to: the span and the heap afterwards
applyAction(span, h, action) ==
    IF action.kind = "set_attribute"
    THEN [span |-> span, heap |-> applySetAttribute(span, h, action)]
    ELSE IF action.kind = "set_status"
    THEN [span |-> [span EXCEPT !.StatusCode = action.statusCode,
                                !.StatusDescription = action.statusMessage],
          heap |-> h]
    ELSE IF action.kind = "add_latency"
    THEN [span |-> applyLatency(span, action.latencyDelta), heap |-> h]
    ELSE [span |-> span, heap |-> h]

\* for _, action := range policy.actions { applyAction(target, action) }
RECURSIVE applyActions(_, _, _)
applyActions(span, h, actions) ==
    IF actions = <<>> THEN [span |-> span, heap |-> h]
    ELSE LET r == applyAction(span, h, Head(actions))
         IN  applyActions(r.span, r.heap, Tail(actions))

\* variant: the span is marked writable without its maps being cloned
ensureWritableSharesMaps(inSpans, o, wr, h, index) ==
    LET o1 == IF o = NilSlice THEN inSpans ELSE o
        w1 == IF wr = NilSlice THEN [n \in 1 .. Len(inSpans) |-> FALSE] ELSE wr
    IN  [out |-> o1, writable |-> [w1 EXCEPT ![index] = TRUE], heap |-> h,
         target |-> [arr |-> "out", idx |-> index]]

\* ensureWritable: copy the slice on the first write, clone the two maps of the
\* span on its first write, and return a pointer into the copy
ensureWritable(inSpans, o, wr, h, index) ==
    LET o1 == IF o = NilSlice THEN inSpans ELSE o
        w1 == IF wr = NilSlice THEN [n \in 1 .. Len(inSpans) |-> FALSE] ELSE wr
    IN  IF ~w1[index]
        THEN LET h1 == Append(h, cloneMap(MapAt(h, o1[index].Attributes)))
                 h2 == Append(h1, cloneMap(MapAt(h, o1[index].ResourceAttributes)))
             IN  [out |-> [o1 EXCEPT ![index].Attributes = Len(h1),
                                     ![index].ResourceAttributes = Len(h2)],
                  writable |-> [w1 EXCEPT ![index] = TRUE],
                  heap |-> h2,
                  target |-> [arr |-> "out", idx |-> index]]
        ELSE [out |-> o1, writable |-> w1, heap |-> h,
              target |-> [arr |-> "out", idx |-> index]]

\* variant: the policy loop never stops early
stopsAfterApplyNever(mode) == FALSE

\* variant: the mode test is inverted
stopsAfterApplyInAll(mode) == mode = "all"

\* if e.mode == PolicyModeFirstMatch { break }
stopsAfterApply(mode) == mode = "first_match"

\* the span a pointer refers to
Deref(inSpans, o, ptr) == IF ptr.arr = "out" THEN o[ptr.idx] ELSE inSpans[ptr.idx]

\* variant: current keeps pointing at the span it pointed at before the write
currentAfterApplyStale(before, target) == before

\* current = target: later policies are matched against the written span
currentAfterApply(before, target) == target

\* current at the start of a span's policy loop
currentAt(o, index) ==
    IF o # NilSlice THEN [arr |-> "out", idx |-> index] ELSE [arr |-> "spans", idx |-> index]

\* ------------------------------------------------------------------------
\* Engine.Apply, one (span, policy) pair per step
\* ------------------------------------------------------------------------
ChaosInit ==
    /\ chaosCfg \in [PolicyMode : PolicyModes, Policies : SeqsUpTo(PolicyPool, MaxPolicies)]
    /\ engine = NewEngine(chaosCfg)
    /\ deciderNil \in BOOLEAN
    /\ spans \in SeqsUpTo(SpanPool, MaxBatch)
    /\ heap = InputHeap
    /\ out = NilSlice
    /\ writable = NilSlice
    /\ current = NilPtr
    /\ si = 0
    /\ pj = 0
    /\ apc = "call"
    /\ result = Null
    /\ spans0 = spans
    /\ log = <<>>

\* if e == nil || len(spans) == 0 || len(e.policies) == 0 { return spans }
ApplyEnter ==
    /\ apc = "call"
    /\ IF Len(spans) = 0 \/ Len(engine.policies) = 0
       THEN /\ apc' = "done"
            /\ result' = "spans"
            /\ UNCHANGED <<si, pj, current>>
       ELSE /\ apc' = "loop"
            /\ si' = 1
            /\ pj' = 1
            /\ current' = currentAt(out, 1)
            /\ UNCHANGED result
    /\ UNCHANGED <<chaosCfg, engine, deciderNil, spans, heap, out, writable, spans0, log>>
    /\ UNCHANGED <<runVars, sharedVars, laterVars>>

\* one pass of the policy loop, given what the decider returns if it is asked:
\* match, probability gate, copy-on-write, actions
EvalPair(decision) ==
    /\ apc = "loop"
    /\ pj <= Len(engine.policies)
    /\ LET policy == engine.policies[pj]
           matched == matches(Deref(spans, out, current), heap, policy.match)
           gate == IF matched
                   THEN shouldApplyPolicy(policy.probability, deciderNil, decision)
                   ELSE [apply |-> FALSE, consulted |-> FALSE]
           entry == [span |-> si, policy |-> pj, matched |-> matched,
                     consulted |-> gate.consulted,
                     returned |-> gate.consulted /\ decision,
                     gate |-> gate.apply, applied |-> FALSE]
       IN  IF ~gate.apply
           THEN /\ pj' = pj + 1
                /\ log' = Append(log, entry)
                /\ UNCHANGED <<spans, heap, out, writable, current>>
           ELSE LET ew == ensureWritable(spans, out, writable, heap, si)
                    r == applyActions(Deref(spans, ew.out, ew.target),
                                      ew.heap, policy.actions)
                IN  /\ IF ew.target.arr = "out"
                       THEN /\ out' = [ew.out EXCEPT ![ew.target.idx] = r.span]
                            /\ UNCHANGED spans
                       ELSE /\ spans' = [spans EXCEPT ![ew.target.idx] = r.span]
                            /\ out' = ew.out
                    /\ heap' = r.heap
                    /\ log' = Append(log, [entry EXCEPT !.applied = TRUE])
                    /\ writable' = ew.writable
                    /\ current' = currentAfterApply(current, ew.target)
                    /\ pj' = IF stopsAfterApply(engine.mode)
                             THEN Len(engine.policies) + 1
                             ELSE pj + 1
    /\ UNCHANGED <<chaosCfg, engine, deciderNil, si, apc, result, spans0>>

\* the pass with a decider that may return either answer
EvalPolicy ==
    /\ \E decision \in BOOLEAN : EvalPair(decision)
    /\ UNCHANGED <<runVars, sharedVars, laterVars>>

\* the policy loop of span si ended: on to the next span, or out of the span loop
NextSpan ==
    /\ apc = "loop"
    /\ pj > Len(engine.policies)
    /\ IF si < Len(spans)
       THEN /\ si' = si + 1
            /\ pj' = 1
            /\ current' = currentAt(out, si + 1)
            /\ UNCHANGED apc
       ELSE /\ apc' = "return"
            /\ UNCHANGED <<si, pj, current>>
    /\ UNCHANGED <<chaosCfg, engine, deciderNil, spans, heap, out, writable, result,
                   spans0, log>>
    /\ UNCHANGED <<runVars, sharedVars, laterVars>>

\* variant: the local out is returned even when nothing was copied into it
returnedSliceAlwaysOut(o) == "out"

\* if out == nil { return spans }; return out
returnedSlice(o) == IF o = NilSlice THEN "spans" ELSE "out"

\* the end of Apply
ApplyReturn ==
    /\ apc = "return"
    /\ result' = returnedSlice(out)
    /\ apc' = "done"
    /\ UNCHANGED <<chaosCfg, engine, deciderNil, spans, heap, out, writable, current,
                   si, pj, spans0, log>>
    /\ UNCHANGED <<runVars, sharedVars, laterVars>>

NextChaos ==
    \/ ApplyEnter
    \/ EvalPolicy
    \/ NextSpan
    \/ ApplyReturn

\* ------------------------------------------------------------------------
\* The seeded decider behind the chaos stage's mutex
\* ------------------------------------------------------------------------
NoWorker == 0

\* chaosCfg.Seed values, and values of time.Now().UnixNano()
Seeds == 0 .. 2
ClockValues == 1 .. 2

\* probabilities, in percent, a decider is called with
AskedProbabilities == {0, 50, 100}

\* rand.NewSource(seed): a deterministic stream of the seed, here the states
\* of a congruential generator over RngModulus values
RngModulus == 16

RECURSIVE rngValue(_, _)
rngValue(s, n) == IF n = 0 THEN s % RngModulus ELSE (5 * rngValue(s, n - 1) + 3) % RngModulus

\* variant: the rand.Source is always seeded from the clock
seedOfDeciderClockOnly(s, now) == now

\* NewSeededShouldApply: a zero seed is replaced by time.Now().UnixNano()
seedOfDecider(s, now) == IF s = 0 THEN now ELSE s

\* the function NewSeededShouldApply returns: the decision and the new position
\* of the rng; rng.Float64() < probability, with the probability in percent
seededShouldApply(rseed, pos, probability) ==
    IF probability <= 0 THEN [answer |-> FALSE, pos |-> pos]
    ELSE IF probability >= 100 THEN [answer |-> TRUE, pos |-> pos]
    ELSE [answer |-> rngValue(rseed, pos) * 100 < probability * RngModulus,
          pos |-> pos + 1]

SharedWorkers == 1 .. nworkers

\* main: one engine, one decider, one chaos stage for all workers
SeededInit ==
    /\ seed \in Seeds
    /\ nworkers \in 1 .. MaxWorkers
    /\ asked \in SeqsUpTo(AskedProbabilities, MaxRequests)
    /\ nworkers * Len(asked) <= MaxLoad
    /\ run = 1
    /\ \E now \in ClockValues : rngSeed = seedOfDecider(seed, now)
    /\ rngPos = 0
    /\ mu = NoWorker
    /\ wlock = NoWorker
    /\ wpc = [w \in SharedWorkers |-> "ask"]
    /\ answers = [w \in SharedWorkers |-> <<>>]
    /\ callLog = <<>>
    /\ written = <<>>
    /\ firstRun = [answers |-> <<>>, callLog |-> <<>>]

\* chaosStage.threadSafeShouldApply, whole: Lock, s.shouldApply(p), Unlock
ThreadSafeShouldApply(w) ==
    /\ wpc[w] = "ask"
    /\ mu = NoWorker
    /\ Len(answers[w]) < Len(asked)
    /\ LET probability == asked[Len(answers[w]) + 1]
           r == seededShouldApply(rngSeed, rngPos, probability)
       IN  /\ rngPos' = r.pos
           /\ answers' = [answers EXCEPT ![w] = Append(@, r.answer)]
           /\ callLog' = Append(callLog, [worker |-> w, probability |-> probability,
                                          answer |-> r.answer])
    /\ UNCHANGED <<seed, asked, nworkers, run, rngSeed, mu, wlock, wpc, written, firstRun>>
    /\ UNCHANGED <<runVars, chaosVars, laterVars>>

\* the same configuration is run a second time: a new decider from the same seed
SecondRun ==
    /\ run = 1
    /\ \A w \in SharedWorkers : Len(answers[w]) = Len(asked)
    /\ run' = 2
    /\ firstRun' = [answers |-> answers, callLog |-> callLog]
    /\ \E now \in ClockValues : rngSeed' = seedOfDecider(seed, now)
    /\ rngPos' = 0
    /\ answers' = [w \in SharedWorkers |-> <<>>]
    /\ callLog' = <<>>
    /\ UNCHANGED <<seed, asked, nworkers, mu, wlock, wpc, written>>
    /\ UNCHANGED <<runVars, chaosVars, laterVars>>

NextSeeded ==
    \/ \E w \in SharedWorkers : ThreadSafeShouldApply(w)
    \/ SecondRun

\* ------------------------------------------------------------------------
\* The two locks workers share: chaosStage.mu and the dry-run factory's lock
\* ------------------------------------------------------------------------
\* variant: Lock never waits
lockFreeAlways(holder) == TRUE

\* sync.Mutex.Lock returns only when no one holds the mutex
lockFree(holder) == holder = NoWorker

\* the iteration a worker is in
IterationOf(w) == Len(answers[w]) + (IF wpc[w] \in {"ask", "deciding"} THEN 1 ELSE 0)

\* s.mu.Lock()
LockDecider(w) ==
    /\ wpc[w] = "ask"
    /\ Len(answers[w]) < Len(asked)
    /\ lockFree(mu)
    /\ mu' = w
    /\ wpc' = [wpc EXCEPT ![w] = "deciding"]
    /\ UNCHANGED <<seed, asked, nworkers, run, rngSeed, rngPos, wlock, answers, callLog,
                   written, firstRun>>
    /\ UNCHANGED <<runVars, chaosVars, laterVars>>

\* return s.shouldApply(probability)
CallDecider(w) ==
    /\ wpc[w] = "deciding"
    /\ LET probability == asked[Len(answers[w]) + 1]
           r == seededShouldApply(rngSeed, rngPos, probability)
       IN  /\ rngPos' = r.pos
           /\ answers' = [answers EXCEPT ![w] = Append(@, r.answer)]
           /\ callLog' = Append(callLog, [worker |-> w, probability |-> probability,
                                          answer |-> r.answer])
    /\ wpc' = [wpc EXCEPT ![w] = "decided"]
    /\ UNCHANGED <<seed, asked, nworkers, run, rngSeed, mu, wlock, written, firstRun>>
    /\ UNCHANGED <<runVars, chaosVars, laterVars>>

\* defer s.mu.Unlock(); the batch then goes to the worker's exporter
UnlockDecider(w) ==
    /\ wpc[w] = "decided"
    /\ mu' = NoWorker
    /\ wpc' = [wpc EXCEPT ![w] = "export"]
    /\ UNCHANGED <<seed, asked, nworkers, run, rngSeed, rngPos, wlock, answers, callLog,
                   written, firstRun>>
    /\ UNCHANGED <<runVars, chaosVars, laterVars>>

\* jsonExporter.ExportSpans: e.lock.Lock()
LockWriter(w) ==
    /\ wpc[w] = "export"
    /\ lockFree(wlock)
    /\ wlock' = w
    /\ wpc' = [wpc EXCEPT ![w] = "encode"]
    /\ UNCHANGED <<seed, asked, nworkers, run, rngSeed, rngPos, mu, answers, callLog,
                   written, firstRun>>
    /\ UNCHANGED <<runVars, chaosVars, laterVars>>

\* encoder.Encode(payload): the record reaches the writer piece by piece
WriteRecord(w) ==
    /\ wpc[w] \in {"encode", "encoding"}
    /\ written' = Append(written, [worker |-> w, call |-> IterationOf(w),
                                   part |-> IF wpc[w] = "encode" THEN "begin" ELSE "end"])
    /\ wpc' = [wpc EXCEPT ![w] = IF wpc[w] = "encode" THEN "encoding" ELSE "encoded"]
    /\ UNCHANGED <<seed, asked, nworkers, run, rngSeed, rngPos, mu, wlock, answers,
                   callLog, firstRun>>
    /\ UNCHANGED <<runVars, chaosVars, laterVars>>

\* defer e.lock.Unlock(); the worker goes on to its next iteration
UnlockWriter(w) ==
    /\ wpc[w] = "encoded"
    /\ wlock' = NoWorker
    /\ wpc' = [wpc EXCEPT ![w] = "ask"]
    /\ UNCHANGED <<seed, asked, nworkers, run, rngSeed, rngPos, mu, answers, callLog,
                   written, firstRun>>
    /\ UNCHANGED <<runVars, chaosVars, laterVars>>

NextShared ==
    \/ \E w \in SharedWorkers : LockDecider(w)
    \/ \E w \in SharedWorkers : CallDecider(w)
    \/ \E w \in SharedWorkers : UnlockDecider(w)
    \/ \E w \in SharedWorkers : LockWriter(w)
    \/ \E w \in SharedWorkers : WriteRecord(w)
    \/ \E w \in SharedWorkers : UnlockWriter(w)

\* ------------------------------------------------------------------------
\* Specifications
\* ------------------------------------------------------------------------
\* no run in progress
RunIdle ==
    /\ cfg = [workers |-> 0, requests |-> 0, interval |-> 0, duration |-> 0,
              batchFactory |-> FALSE]
    /\ pc = <<>> /\ iter = <<>> /\ ret = <<>> /\ exporter = <<>> /\ stats = <<>>
    /\ shutdowns = <<>> /\ calls = <<>> /\ callErrs = <<>>
    /\ ctxErr = Nil /\ parentErr = Nil /\ groupErr = Nil
    /\ runDone = FALSE /\ runErr = Nil /\ summary = ZeroSummary
    /\ firstFail = <<>>
    /\ sawFault = FALSE /\ sawEmpty = FALSE /\ sawCap = FALSE

\* no Apply call in progress
ChaosIdle ==
    /\ chaosCfg = [PolicyMode |-> "", Policies |-> <<>>]
    /\ engine = NewEngine(chaosCfg)
    /\ deciderNil = TRUE
    /\ spans = <<>> /\ heap = <<>> /\ out = NilSlice /\ writable = NilSlice
    /\ current = NilPtr /\ si = 0 /\ pj = 0 /\ apc = "idle" /\ result = Null
    /\ spans0 = <<>> /\ log = <<>>

\* no chaos stage or dry-run factory in use
SharedIdle ==
    /\ seed = 0 /\ asked = <<>> /\ nworkers = 0 /\ run = 0
    /\ rngSeed = 0 /\ rngPos = 0 /\ mu = NoWorker /\ wlock = NoWorker
    /\ wpc = <<>> /\ answers = <<>> /\ callLog = <<>> /\ written = <<>>
    /\ firstRun = [answers |-> <<>>, callLog |-> <<>>]

\* no Process call in progress
ProcessIdle ==
    /\ stages = <<>> /\ initial = <<>> /\ batch = <<>> /\ stageIdx = 0
    /\ processRet = [batch |-> <<>>, err |-> [stage |-> "", cause |-> ""], done |-> FALSE]
    /\ invoked = <<>>

\* no GenerateBatch call in progress
GenIdle ==
    /\ gen = [MaxDepth |-> 0, MaxSpans |-> 0, ErrorRate |-> [num |-> 0, den |-> 1]]
    /\ nodes = <<>> /\ spansRemaining = 0 /\ gpc = "idle"
    /\ collected = <<>> /\ genRet = <<>>
    /\ ghist = [spanCount |-> 0, skippedAt |-> 0, exit |-> ""]

\* no Validate call made
ValidateIdle == appCfg = <<>> /\ validateErr = "pending"

\* no scenario Generator built
ScenarioIdle ==
    /\ definition = [Seed |-> 0, Root |-> "", Nodes |-> {}]
    /\ counter = <<>> /\ spc = <<>> /\ sequence = <<>> /\ callsMade = <<>>
    /\ batches = <<>>

\* no collector set up for the merge
MergeIdle ==
    /\ collectors = <<>> /\ single = NilStats /\ recorded = <<>>
    /\ merged = ZeroSummary /\ alone = ZeroSummary /\ mergeDone = FALSE

\* no scenario Config handed to Build
DagIdle ==
    /\ scenarioCfg = [Root |-> 0, Nodes |-> {}, Edges |-> <<>>]
    /\ built = [Root |-> 0, Nodes |-> {}, Edges |-> <<>>]
    /\ buildErr = "nil" /\ emitted = <<>> /\ bpc = "idle"

\* no batch handed to orderForRebuild
RebuildIdle ==
    /\ rebuildIn = <<>> /\ orderedSpans = <<>> /\ resultSpans = <<>>
    /\ addedIDs = {} /\ rpc = "idle" /\ lastLen = -1

\* no pair of engines in use
TwinIdle == twinBatches = <<>> /\ twinOut = <<>> /\ twinFirst = <<>>

\* no scenario stage call whose span times are looked at
EdgeIdle ==
    /\ edgeCfg = [Kind |-> "", Repeat |-> 0, DurationMs |-> <<0, 0, 0, 0, 0, 0, 0, 0>>]
    /\ stageSpans = <<>> /\ epc = "idle"

LaterIdle == ProcessIdle /\ GenIdle /\ ValidateIdle /\ ScenarioIdle /\ MergeIdle /\ DagIdle /\ RebuildIdle /\ TwinIdle /\ EdgeIdle

InitRun == RunInit /\ ChaosIdle /\ SharedIdle /\ LaterIdle
SpecRun == InitRun /\ [][NextRun]_vars

InitChaos == ChaosInit /\ RunIdle /\ SharedIdle /\ LaterIdle
SpecChaos == InitChaos /\ [][NextChaos]_vars

\* ------------------------------------------------------------------------
\* applyAction on one span, action after action
\* ------------------------------------------------------------------------
HalfMillisecond == Millisecond \div 2

\* input spans: starts and durations in steps of half a millisecond, from a
\* span whose start and end are the same instant to one of 1.5 ms
ActionSpans ==
    {[SpanPost EXCEPT !.StartTime = start * HalfMillisecond,
                      !.EndTime = (start + dur) * HalfMillisecond] :
        start \in 0 .. 1, dur \in 0 .. 3}

\* delta_ms values of add_latency
DeltasMs == {-2, -1, 0, 1}

\* latencyDelta: time.Duration(action.DeltaMs) * time.Millisecond
ActionPool ==
    {AddLatency(d * Millisecond) : d \in DeltasMs} \cup {SetStatus("Error", "simulated")}

\* a writable span, as ensureWritable hands it to the action loop
ActionsInit ==
    /\ spans \in {<<s>> : s \in ActionSpans}
    /\ spans0 = spans
    /\ LET ew == ensureWritable(spans, NilSlice, NilSlice, InputHeap, 1)
       IN  /\ out = ew.out
           /\ writable = ew.writable
           /\ heap = ew.heap
           /\ current = ew.target
    /\ chaosCfg = [PolicyMode |-> "", Policies |-> <<>>]
    /\ engine = NewEngine(chaosCfg)
    /\ deciderNil = TRUE
    /\ si = 1
    /\ pj = 0
    /\ apc = "actions"
    /\ result = Null
    /\ log = <<>>

\* applyAction(target, action); the log keeps the span before and after
ApplyOneAction ==
    /\ apc = "actions"
    /\ pj < MaxActions
    /\ \E action \in ActionPool :
          LET before == Deref(spans, out, current)
              r == applyAction(before, heap, action)
          IN  /\ out' = [out EXCEPT ![current.idx] = r.span]
              /\ heap' = r.heap
              /\ log' = Append(log, [action |-> action, before |-> before,
                                     after |-> r.span, heapBefore |-> heap,
                                     heapAfter |-> r.heap])
    /\ pj' = pj + 1
    /\ UNCHANGED <<chaosCfg, engine, deciderNil, spans, writable, current, si, apc,
                   result, spans0>>
    /\ UNCHANGED <<runVars, sharedVars, laterVars>>

NextActions ==
    \/ ApplyOneAction

InitActions == ActionsInit /\ RunIdle /\ SharedIdle /\ LaterIdle
SpecActions == InitActions /\ [][NextActions]_vars

InitSeeded == SeededInit /\ RunIdle /\ ChaosIdle /\ LaterIdle
SpecSeeded == InitSeeded /\ [][NextSeeded]_vars

InitShared == SeededInit /\ RunIdle /\ ChaosIdle /\ LaterIdle
SpecShared == InitShared /\ [][NextShared]_vars

\* ------------------------------------------------------------------------
\* Properties of the pipeline runner
\* ------------------------------------------------------------------------
Exited == {"exit", "returned", "done"}

RECURSIVE SumOver(_, _)
SumOver(f, S) ==
    IF S = {} THEN 0
    ELSE LET x == CHOOSE y \in S : TRUE IN f[x] + SumOver(f, S \ {x})

TotalCalls == SumOver(calls, Workers)

\* no factory, stage, conversion or exporter failure, no cancellation, no empty batch
CleanRun == ~sawFault /\ ~sawEmpty /\ parentErr = Nil

\* C1: with W >= 1 workers and R >= 1 requests per worker, no duration cap, no
\* cancellation, no failure and no empty batch, Run makes exactly R export calls
\* per worker, W*R in total and all recorded as successes, and returns nil.
C1_CountedRun ==
    (runDone /\ cfg.requests >= 1 /\ cfg.duration = 0 /\ CleanRun)
    => /\ \A w \in Workers :
            /\ calls[w] = cfg.requests
            /\ stats[w].successes = cfg.requests
            /\ stats[w].failures = 0
       /\ TotalCalls = cfg.workers * cfg.requests
       /\ summary.Total = cfg.workers * cfg.requests
       /\ summary.Successes = cfg.workers * cfg.requests
       /\ summary.Failures = 0
       /\ runErr = Nil

C1_Witness ==
    /\ runDone /\ cfg.workers = 2 /\ cfg.requests = 2 /\ cfg.duration = 0
    /\ CleanRun
    /\ summary.Successes = 4
    /\ runErr = Nil

\* C2: with requests_per_worker = 0 and no duration cap a worker never returns
\* nil: it leaves the loop only with an error, which is the context's error
\* unless a failure happened; Run then returns the error of the context it was
\* given (DeadlineExceeded when the deadline expired).
C2_UnboundedRun ==
    (cfg.requests = 0 /\ cfg.duration = 0)
    => /\ \A w \in Workers :
            pc[w] \in Exited =>
                /\ ret[w] # Nil
                /\ ~sawFault => (ret[w] = parentErr /\ parentErr \in CtxErrors)
       /\ (runDone /\ ~sawFault) => (runErr = parentErr /\ parentErr \in CtxErrors)

C2_Witness ==
    /\ runDone /\ cfg.requests = 0 /\ cfg.duration = 0 /\ ~sawFault
    /\ runErr = DeadlineExceeded
    /\ summary.Total >= 1

\* C3: an exporter call that returns an error is recorded as a failure together
\* with its duration, and the worker ends at once with that error: at most one
\* call of a worker fails, it is its last call, and no call is repeated.
C3_ExportErrorEndsWorker ==
    \A w \in Workers :
        stats[w] # NilStats =>
            /\ Len(stats[w].durations) = calls[w]
            /\ stats[w].failures = Len(callErrs[w])
            /\ stats[w].successes = calls[w] - Len(callErrs[w])
            /\ Len(callErrs[w]) <= 1
            /\ Len(callErrs[w]) = 1 =>
                   /\ pc[w] \in Exited
                   /\ ret[w] = callErrs[w][1]
            /\ calls[w] <= (IF cfg.requests > 0 THEN cfg.requests ELSE IterationCap)

C3_Witness ==
    \E w \in Workers :
        /\ pc[w] = "done"
        /\ callErrs[w] = <<ExportErr>>
        /\ stats[w].failures = 1 /\ stats[w].successes = 1
        /\ ret[w] = ExportErr

\* C4: the first worker error cancels the context shared by the workers, a
\* worker whose context is done starts no further iteration from the loop head
\* or the pacing sleep, and the runner returns the error of the first worker
\* that returned one, never the cancellation a sibling returns afterwards.
C4_State ==
    /\ groupErr # Nil => ctxErr # Nil
    /\ firstFail # <<>> => groupErr = firstFail[2]
    /\ runDone => runErr = (IF firstFail = <<>> THEN Nil ELSE firstFail[2])
    /\ (runDone /\ parentErr = Nil /\ runErr # Nil) => runErr \in FaultErrors

C4_Step ==
    \A w \in Workers :
        (ctxErr # Nil /\ pc[w] \in {"head", "sleep"} /\ pc'[w] # pc[w])
        => \/ pc'[w] = "head" /\ pc[w] = "sleep"
           \/ /\ pc'[w] \in Exited
              /\ ret'[w] = (IF pc[w] = "head" /\ cfg.requests > 0 /\ iter[w] >= cfg.requests
                            THEN Nil ELSE ctxErr)

C4_FirstErrorWins == [](C4_State) /\ [][C4_Step]_vars

C4_Witness ==
    /\ runDone /\ parentErr = Nil /\ cfg.workers = 2
    /\ firstFail = <<1, StageErr>>
    /\ ret[0] = Canceled
    /\ calls[0] >= 1
    /\ runErr = StageErr

\* C5: a worker that obtained an exporter calls Shutdown on it exactly once, as
\* it returns and not before, whatever the exit path; a worker whose factory
\* call failed calls none.
C5_ShutdownOnce ==
    \A w \in Workers :
        /\ pc[w] \in {"returned", "done"} =>
               shutdowns[w] = (IF exporter[w] = "none" THEN 0 ELSE 1)
        /\ pc[w] \notin {"returned", "done"} => shutdowns[w] = 0

C5_Witness ==
    /\ runDone /\ cfg.workers = 2
    /\ ret[0] = ExportErr /\ ret[1] = Canceled
    /\ exporter[0] # "none" /\ exporter[1] # "none"
    /\ shutdowns[0] = 1 /\ shutdowns[1] = 1

\* C6: the merged summary is computed only once every worker has returned,
\* whether Run returns nil or an error; it counts every export call of every
\* worker, and no collector changes after the merge read it.
C6_SummaryAfterJoin ==
    /\ ~runDone => summary = ZeroSummary
    /\ runDone =>
          /\ \A w \in Workers : pc[w] = "done"
          /\ summary.Total = TotalCalls
          /\ summary = Summarize(StatsList)

C6_Witness ==
    /\ runDone /\ runErr # Nil /\ cfg.workers = 2
    /\ calls[0] >= 1 /\ calls[1] >= 1
    /\ summary.Total = calls[0] + calls[1]

\* C7: after any run the merged summary satisfies Successes + Failures = Total,
\* Total being the number of exporter calls made by all workers.
C7_CountersAddUp ==
    runDone =>
        /\ summary.Successes + summary.Failures = summary.Total
        /\ summary.Total = TotalCalls

C7_Witness ==
    /\ runDone
    /\ summary.Failures >= 1 /\ summary.Successes >= 1
    /\ summary.Total = summary.Failures + summary.Successes

\* C8 as stated: a run that ends because the duration cap elapsed, or because of
\* external cancellation, returns Canceled or DeadlineExceeded, and the summary
\* is produced.
C8_Original ==
    (runDone /\ ~sawFault /\ (sawCap \/ \E w \in Workers : ret[w] \in CtxErrors))
    => /\ runErr \in CtxErrors
       /\ summary = Summarize(StatsList)

\* C8 amended: without a failure, a run in which a worker stopped on the
\* cancelled context returns the error of the context given to Run; a run whose
\* workers all stopped on the duration cap or on their request count returns
\* nil; the summary is produced in both cases.
C8_CapReturnsNil ==
    (runDone /\ ~sawFault)
    => /\ (\E w \in Workers : ret[w] # Nil) =>
              (runErr = parentErr /\ parentErr \in CtxErrors)
       /\ (\A w \in Workers : ret[w] = Nil) => runErr = Nil
       /\ summary = Summarize(StatsList)
       /\ summary.Total = TotalCalls

C8_Witness ==
    /\ runDone /\ ~sawFault /\ sawCap /\ parentErr = Nil
    /\ cfg.requests = 0
    /\ runErr = Nil
    /\ summary.Total >= 1

\* ------------------------------------------------------------------------
\* Properties of Engine.Apply
\* ------------------------------------------------------------------------
InputMaps == 1 .. NumInputMaps

AppliedEntries(i) == {k \in 1 .. Len(log) : log[k].span = i /\ log[k].applied}

\* C9: Apply never mutates its input. At every point of a call the input
\* slice still holds the spans it was called with and every input attribute
\* map still holds its entries; a span that was written lives in the copied
\* slice with two cloned maps, and a span that was not written is the input
\* span unchanged.
C9_InputNotMutated ==
    apc \in {"call", "loop", "return", "done"} =>
        /\ spans = spans0
        /\ \A a \in InputMaps : heap[a] = InputHeap[a]
        /\ \A i \in 1 .. Len(out) :
              IF writable # NilSlice /\ writable[i]
              THEN /\ out[i].Attributes \notin InputMaps \cup {NilRef}
                   /\ out[i].ResourceAttributes \notin InputMaps \cup {NilRef}
                   /\ out[i].Attributes # out[i].ResourceAttributes
              ELSE out[i] = spans0[i]
        /\ (out = NilSlice) => (Len(heap) = NumInputMaps)
        /\ (result = "out") => (\E i \in 1 .. Len(out) : writable[i])

\* Apply returned a copy in which a span has a new status and a rewritten
\* attribute, while the input span and its map are as they were
C9_Witness ==
    /\ apc = "done"
    /\ result = "out"
    /\ \E i \in 1 .. Len(out) :
          /\ out[i].StatusCode # spans0[i].StatusCode
          /\ spans0[i].Attributes # NilRef
          /\ heap[out[i].Attributes] # heap[spans0[i].Attributes]
          /\ spans[i] = spans0[i]

\* C10: in mode first_match no policy is evaluated for a span after one was
\* applied to it, so at most one is applied per span; in mode all, which an
\* empty policy_mode selects, a finished call has evaluated every policy on
\* every span in file order and applied exactly those that matched and
\* passed the probability gate.
C10_PolicyModes ==
    /\ (chaosCfg.PolicyMode = "") => (engine.mode = "all")
    /\ (engine.mode = "first_match") =>
          \A i \in 1 .. Len(spans) :
              /\ Cardinality(AppliedEntries(i)) <= 1
              /\ \A k \in AppliedEntries(i) :
                    \A m \in (k + 1) .. Len(log) : log[m].span # i
    /\ (chaosCfg.PolicyMode \in {"", "all"} /\ apc = "done" /\ result # "spans") =>
          LET P == Len(engine.policies)
          IN  /\ Len(log) = Len(spans) * P
              /\ \A k \in 1 .. Len(log) :
                    /\ log[k].span = ((k - 1) \div P) + 1
                    /\ log[k].policy = ((k - 1) % P) + 1
                    /\ log[k].applied = (log[k].matched /\ log[k].gate)

\* a first_match call ended in which the first of two policies was applied to
\* a span and the second, which matches every span, was not evaluated for it
C10_Witness ==
    /\ apc = "done"
    /\ engine.mode = "first_match"
    /\ Len(engine.policies) = 2
    /\ engine.policies[2] = PolAll
    /\ \E k \in 1 .. Len(log) :
          /\ log[k].policy = 1
          /\ log[k].applied
          /\ \A m \in 1 .. Len(log) : log[m].span = log[k].span => m = k

\* the log entries of span i, in the order they were made
EntriesOf(i) == {k \in 1 .. Len(log) : log[k].span = i}

\* C11 as stated: in mode first_match a policy is applied to a span only if no
\* earlier policy in file order matched that span.
C11_Original ==
    (engine.mode = "first_match") =>
        \A k \in 1 .. Len(log) :
            log[k].applied =>
                \A m \in 1 .. (k - 1) : log[m].span = log[k].span => ~log[m].matched

\* C11 amended: in mode first_match a policy is applied to a span only if every
\* earlier policy in file order was evaluated for that span and either did not
\* match or matched and was gated out by its probability; once a policy was
\* applied, no later policy is evaluated or applied for that span.
C11_FirstApplied ==
    (engine.mode = "first_match") =>
        \A k \in 1 .. Len(log) :
            log[k].applied =>
                /\ \A q \in 1 .. (log[k].policy - 1) :
                      \E m \in 1 .. (k - 1) :
                          /\ log[m].span = log[k].span
                          /\ log[m].policy = q
                          /\ ~log[m].applied
                          /\ log[m].matched => ~log[m].gate
                /\ \A m \in EntriesOf(log[k].span) : m <= k
                /\ \A m \in EntriesOf(log[k].span) : log[m].applied => m = k

\* a first_match call ended in which the first policy matched a span and was
\* gated out, and the second policy was then applied to the same span
C11_Witness ==
    /\ apc = "done"
    /\ engine.mode = "first_match"
    /\ \E k \in 1 .. Len(log) :
          /\ log[k].applied /\ log[k].policy = 2
          /\ \E m \in 1 .. (k - 1) :
                /\ log[m].span = log[k].span
                /\ log[m].matched /\ ~log[m].gate

\* the keys of the map at an address
KeysAt(h, ref) == DOMAIN MapAt(h, ref)

\* the set_attribute actions, in order, of the policies applied to span i up
\* to log entry n that name the key in the scope
RECURSIVE SetsOf(_, _, _, _)
SetsOf(i, scope, key, n) ==
    IF n = 0 THEN <<>>
    ELSE SetsOf(i, scope, key, n - 1) \o
         (IF log[n].span = i /\ log[n].applied
          THEN SelectSeq(engine.policies[log[n].policy].actions,
                         LAMBDA a : a.kind = "set_attribute" /\ a.scope = scope
                                    /\ a.name = key)
          ELSE <<>>)

\* the value the key must hold: that of the last set_attribute, or the input's
ExpectedValue(i, scope, key, inputRef) ==
    LET sets == SetsOf(i, scope, key, Len(log))
    IN  IF sets = <<>> THEN InputHeap[inputRef][key] ELSE sets[Len(sets)].value

\* C12: set_attribute overwrites a value only when the key exists in the
\* targeted scope and is otherwise a no-op: at every point of a call each span
\* of the copy has the span-attribute keys and the resource-attribute keys of
\* its input span, and each key holds the value of the last set_attribute
\* applied to it in its scope, or the input value when there was none.
C12_SetAttributeKeepsKeys ==
    apc \in {"loop", "return", "done"} =>
        \A i \in 1 .. Len(out) :
            /\ KeysAt(heap, out[i].Attributes) = KeysAt(InputHeap, spans0[i].Attributes)
            /\ KeysAt(heap, out[i].ResourceAttributes)
                   = KeysAt(InputHeap, spans0[i].ResourceAttributes)
            /\ \A key \in KeysAt(heap, out[i].Attributes) :
                   heap[out[i].Attributes][key]
                       = ExpectedValue(i, "span", key, spans0[i].Attributes)
            /\ \A key \in KeysAt(heap, out[i].ResourceAttributes) :
                   heap[out[i].ResourceAttributes][key]
                       = ExpectedValue(i, "resource", key, spans0[i].ResourceAttributes)

\* a call ended in which one applied policy named a key the span lacks, which
\* stayed absent, and another span had an existing key overwritten
C12_Witness ==
    /\ apc = "done"
    /\ result = "out"
    /\ \E k \in 1 .. Len(log) :
          /\ log[k].applied
          /\ \E n \in 1 .. Len(engine.policies[log[k].policy].actions) :
                LET a == engine.policies[log[k].policy].actions[n]
                IN  /\ a.kind = "set_attribute" /\ a.scope = "span"
                    /\ a.name \notin KeysAt(heap, out[log[k].span].Attributes)
    /\ \E i \in 1 .. Len(out) :
          /\ spans0[i].Attributes # NilRef
          /\ "http.route" \in KeysAt(heap, out[i].Attributes)
          /\ heap[out[i].Attributes]["http.route"] = StringValue("/chaos")

\* the log entries of add_latency actions
LatencyEntries == {k \in 1 .. Len(log) : log[k].action.kind = "add_latency"}

\* C13 as stated: add_latency with any delta, 0 included, sets EndTime to
\* EndTime + delta when that is strictly after StartTime and clamps it to
\* StartTime + 1 ms otherwise; StartTime, status and attributes are unchanged.
C13_Original ==
    \A k \in LatencyEntries :
        LET b == log[k].before
            a == log[k].after
            d == log[k].action.latencyDelta
        IN  /\ a.EndTime = (IF b.EndTime + d > b.StartTime
                            THEN b.EndTime + d ELSE b.StartTime + Millisecond)
            /\ a = [b EXCEPT !.EndTime = a.EndTime]
            /\ log[k].heapAfter = log[k].heapBefore

\* C13 amended: add_latency with a non-zero delta sets EndTime to
\* EndTime + delta when that is strictly after StartTime and clamps it to
\* StartTime + 1 ms otherwise; with a zero delta it leaves EndTime as it is,
\* also when EndTime is not after StartTime; StartTime, status and attributes
\* are unchanged in every case.
C13_LatencyShift ==
    \A k \in LatencyEntries :
        LET b == log[k].before
            a == log[k].after
            d == log[k].action.latencyDelta
        IN  /\ d # 0 =>
                  a.EndTime = (IF b.EndTime + d > b.StartTime
                               THEN b.EndTime + d ELSE b.StartTime + Millisecond)
            /\ d = 0 => a.EndTime = b.EndTime
            /\ a = [b EXCEPT !.EndTime = a.EndTime]
            /\ log[k].heapAfter = log[k].heapBefore

\* a zero delta left a span whose end is not after its start as it was, a
\* negative delta was clamped, and a positive delta was added
C13_Witness ==
    /\ \E k \in LatencyEntries :
          /\ log[k].action.latencyDelta = 0
          /\ log[k].before.EndTime = log[k].before.StartTime
          /\ log[k].after.EndTime = log[k].before.EndTime
    /\ \E k \in LatencyEntries :
          /\ log[k].action.latencyDelta < 0
          /\ log[k].after.EndTime = log[k].before.StartTime + Millisecond
          /\ log[k].before.EndTime + log[k].action.latencyDelta < log[k].before.StartTime
    /\ \E k \in LatencyEntries :
          /\ log[k].action.latencyDelta > 0
          /\ log[k].after.EndTime = log[k].before.EndTime + log[k].action.latencyDelta

\* the probability, in percent, of the policy of log entry k
ProbabilityOf(k) == engine.policies[log[k].policy].probability

\* entry k comes before entry m in span order, then policy order
PairBefore(k, m) ==
    \/ log[k].span < log[m].span
    \/ log[k].span = log[m].span /\ log[k].policy < log[m].policy

\* C15: a matching policy with probability <= 0 is never applied and one with
\* probability >= 1 always is, both without the decider; one with 0 < p < 1
\* is applied iff the decider returns true, and never when the decider is nil.
\* The decider is called once for each (span, policy) pair that is evaluated,
\* matches and has 0 < p < 1, in span order then policy order, and for no
\* other pair; a pair is evaluated unless a first_match stop skipped it.
C15_ProbabilityGate ==
    apc \in {"loop", "return", "done"} =>
        /\ \A k \in 1 .. Len(log) :
              /\ ~log[k].matched => (~log[k].consulted /\ ~log[k].applied)
              /\ (log[k].matched /\ ProbabilityOf(k) <= 0) =>
                     (~log[k].consulted /\ ~log[k].applied)
              /\ (log[k].matched /\ ProbabilityOf(k) >= 100) =>
                     (~log[k].consulted /\ log[k].applied)
              /\ (log[k].matched /\ ProbabilityOf(k) > 0 /\ ProbabilityOf(k) < 100) =>
                     /\ log[k].consulted = ~deciderNil
                     /\ log[k].applied = (log[k].consulted /\ log[k].returned)
        /\ \A k, m \in 1 .. Len(log) : k < m => PairBefore(k, m)
        /\ (apc = "done" /\ Len(log) > 0) =>
              \A i \in 1 .. Len(spans) : \A j \in 1 .. Len(engine.policies) :
                  \/ \E k \in 1 .. Len(log) : log[k].span = i /\ log[k].policy = j
                  \/ /\ engine.mode = "first_match"
                     /\ \E k \in 1 .. Len(log) :
                           log[k].span = i /\ log[k].policy < j /\ log[k].applied

\* a call ended in which the decider said yes for one pair, which was applied,
\* no for a later pair, which was not, and was not asked for a matching policy
\* of probability 1, which was applied
C15_Witness ==
    /\ apc = "done"
    /\ ~deciderNil
    /\ \E k, m, n \in 1 .. Len(log) :
          /\ k < m
          /\ log[k].consulted /\ log[k].returned /\ log[k].applied
          /\ log[m].consulted /\ ~log[m].returned /\ ~log[m].applied
          /\ ProbabilityOf(n) >= 100 /\ log[n].matched
          /\ ~log[n].consulted /\ log[n].applied

\* the first n decider calls of the two runs came with the same probabilities
SameQuestions(n) ==
    \A m \in 1 .. n : callLog[m].probability = firstRun.callLog[m].probability

\* the n-th decider calls of the two runs got the same decision whenever the
\* calls up to the n-th came with the same probabilities
SameDecisions ==
    \A n \in 1 .. Len(callLog) :
        (n <= Len(firstRun.callLog) /\ SameQuestions(n)) =>
            callLog[n].answer = firstRun.callLog[n].answer

\* C17: with a fixed non-zero seed, two runs of the same configuration make
\* the same decision for every (worker, call), for any number of workers
\* sharing the one decider.
C17_Original ==
    (run = 2 /\ seed # 0) =>
        \A w \in SharedWorkers :
            \A n \in 1 .. Len(answers[w]) : answers[w][n] = firstRun.answers[w][n]

InDecider == {w \in SharedWorkers : wpc[w] \in {"deciding", "decided"}}
InWriter == {w \in SharedWorkers : wpc[w] \in {"encode", "encoding", "encoded"}}

\* C18: at no time are two workers inside the shared decider, and at no time
\* are two exporters of the factory writing to the JSON writer: the worker in
\* either section is the holder of its lock, and every record in the output
\* is whole, its two pieces next to each other.
C18_MutualExclusion ==
    /\ Cardinality(InDecider) <= 1
    /\ \A w \in InDecider : mu = w
    /\ Cardinality(InWriter) <= 1
    /\ \A w \in InWriter : wlock = w
    /\ \A k \in 1 .. Len(written) :
          IF k % 2 = 1
          THEN written[k].part = "begin"
          ELSE /\ written[k].part = "end"
               /\ written[k].worker = written[k - 1].worker
               /\ written[k].call = written[k - 1].call

\* worker 1 holds the writer lock in the middle of its record while worker 2,
\* whose first record is whole in the output, stands before the lock
C18_Witness ==
    /\ nworkers = 2
    /\ wpc[1] = "encoding"
    /\ wpc[2] = "export"
    /\ wlock = 1
    /\ Len(written) = 3
    /\ written[1].worker = 2
    /\ Len(callLog) >= 3

\* the four conditions of a match, stated on the span's two attribute maps
NameHolds(span, m) == m.spanName = "" \/ span.Name = m.spanName

KindHolds(span, m) == m.spanKinds = {} \/ span.Kind \in m.spanKinds

ServiceHolds(attrs, res, m) ==
    \/ m.serviceName = ""
    \/ \E scope \in {attrs, res} :
          /\ "service.name" \in DOMAIN scope
          /\ scope["service.name"] = StringValue(m.serviceName)

AttributesHold(attrs, res, m) ==
    \A key \in DOMAIN m.attributes :
        \/ key \in DOMAIN attrs /\ attrs[key] = m.attributes[key]
        \/ key \notin DOMAIN attrs /\ key \in DOMAIN res /\ res[key] = m.attributes[key]

MatchHolds(span, h, m) ==
    /\ NameHolds(span, m)
    /\ KindHolds(span, m)
    /\ ServiceHolds(MapAt(h, span.Attributes), MapAt(h, span.ResourceAttributes), m)
    /\ AttributesHold(MapAt(h, span.Attributes), MapAt(h, span.ResourceAttributes), m)

C19_Step ==
    (apc = "loop" /\ Len(log') = Len(log) + 1) =>
        LET m == engine.policies[pj].match
            span == Deref(spans, out, current)
        IN  /\ log'[Len(log')].matched = MatchHolds(span, heap, m)
            /\ (m = Match("", "", {}, EmptyMap)) => log'[Len(log')].matched

\* C19: each time a policy is evaluated for a span it matches iff its span
\* name, span kinds and service name conditions hold and every match attribute
\* equals, in type and value, the span attribute of that key or, only when the
\* span has no such key, the resource attribute; a policy with an empty match
\* matches every span.
C19_MatchRule == [][C19_Step]_vars

\* one policy with a match attribute matched a span through its resource
\* attributes and, in the same call, did not match a span whose own attribute
\* of that key differs although its resource attribute agrees
C19_Witness ==
    /\ apc = "done"
    /\ \E k, n \in 1 .. Len(log) :
          /\ engine.policies[log[k].policy] = PolNever
          /\ engine.policies[log[n].policy] = PolNever
          /\ spans0[log[k].span] = SpanPost /\ log[k].matched
          /\ spans0[log[n].span] = SpanGet /\ ~log[n].matched
          /\ heap[spans0[log[n].span].ResourceAttributes]["service.name"]
                 = StringValue("post-service")

\* C20: when Apply ends without having applied a policy to any span, because
\* none matched or every matching one was gated out, or because the batch or
\* the policy list is empty, it returns the input slice itself and has copied
\* neither the slice nor a map; it returns the copy only when a policy was
\* applied.
C20_ReturnsInput ==
    apc = "done" =>
        /\ (\A k \in 1 .. Len(log) : ~log[k].applied) =>
               /\ result = "spans"
               /\ out = NilSlice /\ writable = NilSlice
               /\ heap = InputHeap
               /\ spans = spans0
        /\ (Len(spans0) = 0 \/ Len(engine.policies) = 0) =>
               (result = "spans" /\ log = <<>>)
        /\ (result = "out") => (\E k \in 1 .. Len(log) : log[k].applied)

\* a call on two spans ended in which a policy matched and was gated out and
\* another did not match, nothing was applied, and the input slice came back
C20_Witness ==
    /\ apc = "done"
    /\ result = "spans"
    /\ Len(spans0) = 2
    /\ \E k, m \in 1 .. Len(log) :
          /\ log[k].matched /\ ~log[k].gate
          /\ ~log[m].matched
    /\ \A k \in 1 .. Len(log) : ~log[k].applied

\* ------------------------------------------------------------------------
\* Pipeline.Process over the stages of package pipeline
\* ------------------------------------------------------------------------
MaxStages == 3

\* a nil error of Process, and the error fmt.Errorf("stage %s: %w", name, err) builds
NoError == [stage |-> "", cause |-> ""]
tagError(name, cause) == [stage |-> name, cause |-> cause]

\* spans as far as the stages below tell them apart
ModelSpan(name, status) == [Name |-> name, StatusCode |-> status]
GeneratedBatch == << ModelSpan("root", "Ok"), ModelSpan("child", "Ok") >>
\* scenario newSpan gives every span StatusCode codes.Ok
ScenarioBatch == << ModelSpan("scenario-root", "Ok") >>
InitialBatches == {NilSlice, << ModelSpan("given", "Unset") >>}

\* stage values: a nil BatchStage; generatorStage and scenarioStage with their
\* generator nil or set; chaosStage with its engine nil, or an engine of one
\* always-applied match-all policy that sets the status named by arg
NilStage == [type |-> "nil", arg |-> "nil"]
generatorStage(arg) == [type |-> "generator", arg |-> arg]
scenarioStage(arg) == [type |-> "scenario", arg |-> arg]
chaosStage(arg) == [type |-> "chaos", arg |-> arg]
StagePool ==
    {NilStage, generatorStage("nil"), generatorStage("set"), scenarioStage("set"),
     chaosStage("nil"), chaosStage("Error"), chaosStage("Ok")}

stageName(stage) == stage.type

generatorProcess(stage, input) ==
    IF stage.arg = "nil"
    THEN [batch |-> NilSlice, cause |-> "trace generator not configured"]
    ELSE [batch |-> GeneratedBatch, cause |-> ""]

scenarioProcess(stage, input) ==
    IF stage.arg = "nil"
    THEN [batch |-> NilSlice, cause |-> "scenario generator not configured"]
    ELSE [batch |-> ScenarioBatch, cause |-> ""]

chaosProcess(stage, input) ==
    IF stage.arg = "nil"
    THEN [batch |-> NilSlice, cause |-> "chaos engine not configured"]
    ELSE [batch |-> [i \in DOMAIN input |-> [input[i] EXCEPT !.StatusCode = stage.arg]],
          cause |-> ""]

stageProcess(stage, input) ==
    CASE stage.type = "generator" -> generatorProcess(stage, input)
      [] stage.type = "scenario" -> scenarioProcess(stage, input)
      [] stage.type = "chaos" -> chaosProcess(stage, input)

\* if err != nil { return nil, ... }
returnsOnErrorNever(cause) == FALSE
returnsOnError(cause) == cause # ""

ProcessInit ==
    /\ stages \in SeqsUpTo(StagePool, MaxStages)
    /\ initial \in InitialBatches
    /\ batch = <<>> /\ stageIdx = 0
    /\ processRet = [batch |-> <<>>, err |-> NoError, done |-> FALSE]
    /\ invoked = <<>>

\* batch := spans
ProcessEnter ==
    /\ stageIdx = 0
    /\ batch' = initial
    /\ stageIdx' = 1
    /\ UNCHANGED <<stages, initial, processRet, invoked>>
    /\ UNCHANGED exceptProcess

\* one iteration of the range loop
ProcessStage ==
    /\ stageIdx \in 1 .. Len(stages)
    /\ ~processRet.done
    /\ LET stage == stages[stageIdx] IN
       IF stage = NilStage
       THEN /\ stageIdx' = stageIdx + 1
            /\ UNCHANGED <<batch, processRet, invoked>>
       ELSE LET r == stageProcess(stage, batch) IN
            /\ batch' = r.batch
            /\ invoked' = Append(invoked, [index |-> stageIdx, input |-> batch,
                                           output |-> r.batch, cause |-> r.cause])
            /\ IF returnsOnError(r.cause)
               THEN /\ processRet' = [batch |-> NilSlice,
                                      err |-> tagError(stageName(stage), r.cause),
                                      done |-> TRUE]
                    /\ UNCHANGED stageIdx
               ELSE /\ stageIdx' = stageIdx + 1
                    /\ UNCHANGED processRet
    /\ UNCHANGED <<stages, initial>>
    /\ UNCHANGED exceptProcess

\* return batch, nil
ProcessReturn ==
    /\ stageIdx = Len(stages) + 1
    /\ ~processRet.done
    /\ processRet' = [batch |-> batch, err |-> NoError, done |-> TRUE]
    /\ UNCHANGED <<stages, initial, batch, stageIdx, invoked>>
    /\ UNCHANGED exceptProcess

NextProcess == ProcessEnter \/ ProcessStage \/ ProcessReturn

InitProcess ==
    ProcessInit /\ RunIdle /\ ChaosIdle /\ SharedIdle /\ GenIdle /\ ValidateIdle /\ ScenarioIdle /\ MergeIdle /\ DagIdle /\ RebuildIdle /\ TwinIdle /\ EdgeIdle
SpecProcess == InitProcess /\ [][NextProcess]_vars

\* ------------------------------------------------------------------------
\* Properties of Pipeline.Process
\* ------------------------------------------------------------------------
\* the stages a completed fold has to have called: the non-nil stages up to and
\* including the first one whose call failed
FailedCalls == {k \in 1 .. Len(invoked) : invoked[k].cause # ""}
NonNilUpTo(n) == {i \in 1 .. n : stages[i] # NilStage}

\* C21: Process hands the initial batch to the first stage and each stage's
\* output to the next one, in list order; at the first stage error it returns
\* no batch and an error carrying that stage's name, and calls no later stage
C21_ProcessFolds ==
    /\ \A k \in 1 .. Len(invoked) :
          /\ invoked[k].input = (IF k = 1 THEN initial ELSE invoked[k - 1].output)
          /\ k > 1 => invoked[k - 1].index < invoked[k].index
          /\ k < Len(invoked) => invoked[k].cause = ""
    /\ processRet.done =>
          IF FailedCalls # {}
          THEN LET f == invoked[Len(invoked)] IN
               /\ processRet.batch = NilSlice
               /\ processRet.err = [stage |-> stageName(stages[f.index]), cause |-> f.cause]
               /\ {invoked[k].index : k \in 1 .. Len(invoked)} = NonNilUpTo(f.index)
          ELSE /\ processRet.err = NoError
               /\ processRet.batch =
                     (IF invoked = <<>> THEN initial ELSE invoked[Len(invoked)].output)
               /\ {invoked[k].index : k \in 1 .. Len(invoked)} = NonNilUpTo(Len(stages))

\* a fold of three stages whose second stage failed after the first changed the batch
C21_Witness ==
    /\ processRet.done
    /\ Len(stages) = 3 /\ stages[3] # NilStage
    /\ Len(invoked) = 2
    /\ invoked[1].output # initial
    /\ invoked[2].cause # ""
    /\ invoked[2].input = invoked[1].output
    /\ processRet.err.stage = "chaos"

\* ------------------------------------------------------------------------
\* Trace Generator: GenerateBatch, emitTrace and the TraceBuilder
\* ------------------------------------------------------------------------
MaxSpansLimit == 4
MaxDepthLimit == 3
\* largest MaxSpans tried with an ErrorRate strictly between 0 and 1
MaxRolledSpans == 2

Precision == 1000

\* time in milliseconds; randomSpanDuration yields a duration from 1 ms to
\* 2 min, of which the model draws these
DurationSamples == {1, 2}

SpanKinds == {"client", "server", "producer", "consumer", "internal"}

\* ErrorRate values as fractions: 0, 0.0005, 0.5, 1
ErrorRates ==
    {[num |-> 0, den |-> 1], [num |-> 1, den |-> 2000], [num |-> 1, den |-> 2],
     [num |-> 1, den |-> 1]}

StatusOk == [code |-> "Ok", description |-> "", http |-> 200]
StatusError == [code |-> "Error", description |-> "simulated failure", http |-> 500]

\* the outcomes randomSpanStatus can have
randomSpanStatus(errorRate) ==
    IF errorRate.num <= 0 THEN {StatusOk}
    ELSE IF errorRate.num >= errorRate.den THEN {StatusError}
    ELSE LET threshold == (errorRate.num * Precision) \div errorRate.den IN
         IF threshold <= 0 THEN {StatusOk}
         ELSE IF threshold >= Precision THEN {StatusError}
         ELSE {IF roll < threshold THEN StatusError ELSE StatusOk :
                  roll \in {0, threshold - 1, threshold, Precision - 1}}

\* the http.response.status_code attribute of a span, 0 when it has none
appendHTTPStatusAttributeAnyKind(kind, httpStatus) == httpStatus
appendHTTPStatusAttribute(kind, httpStatus) ==
    IF kind # "server" /\ kind # "client" THEN 0 ELSE httpStatus

randomSpanCount(max) == IF max <= 1 THEN {1} ELSE 1 .. max

randomDurationRange(min, max) == IF max <= min THEN {min} ELSE min .. max

randomChildWindow(parentStart, parentEnd, duration) ==
    IF duration <= 0 THEN {[start |-> parentStart, end |-> parentStart]}
    ELSE IF parentEnd < parentStart THEN {[start |-> parentStart, end |-> parentEnd]}
    ELSE LET latest == parentEnd - duration
             latestStart == IF latest < parentStart THEN parentStart ELSE latest
             offsetRange == latestStart - parentStart
         IN  {[start |-> parentStart + offset, end |-> parentStart + offset + duration] :
                 offset \in randomDurationRange(0, offsetRange)}

\* if childDuration > parentWindow { childDuration = parentWindow }
clampDurationNever(childDuration, parentWindow) == childDuration
clampDuration(childDuration, parentWindow) ==
    IF childDuration > parentWindow THEN parentWindow ELSE childDuration

\* the windows emitChildSpan can give a child of the node
childWindows(parent) ==
    UNION {randomChildWindow(parent.start, parent.end,
                             clampDuration(d, parent.end - parent.start)) :
              d \in DurationSamples}

\* SpanBuilder.addChild
addChild(ns, s, child) ==
    [ns EXCEPT ![s].children = Append(@, child),
               ![child].parents = Append(@, s),
               ![child].depth = ns[s].depth + 1]

\* the status newSpan gives the span: the StatusCode and StatusDescription of
\* the SpanSpec
specStatus(spec) == [code |-> spec.status.code, description |-> spec.status.description]

\* TraceBuilder.newSpan: tracer.Start in the parent's context makes the parent's
\* span the new span's ParentSpanID; parent 0 is the root context
newSpan(ns, spec, parent) ==
    LET node == [parentSpan |-> parent, kind |-> spec.kind,
                 start |-> spec.start, end |-> spec.end,
                 http |-> spec.http, db |-> spec.db,
                 statusCode |-> specStatus(spec).code,
                 statusDescription |-> specStatus(spec).description,
                 links |-> <<>>, depth |-> 1, parents |-> <<>>, children |-> <<>>]
        added == Append(ns, node)
    IN  IF parent # 0 THEN addChild(added, parent, Len(added)) ELSE added

\* Generator.emitChildSpan with its random draws made: window and status
emitChildSpan(ns, parent, kind, db, window, status) ==
    newSpan(ns, [kind |-> kind, start |-> window.start, end |-> window.end,
                 http |-> appendHTTPStatusAttribute(kind, status.http),
                 db |-> db, status |-> status], parent)

RECURSIVE hasAncestor(_, _, _)
hasAncestor(ns, s, target) ==
    \E k \in 1 .. Len(ns[s].parents) :
        ns[s].parents[k] = target \/ hasAncestor(ns, ns[s].parents[k], target)

hasChild(ns, s, child) == \E k \in 1 .. Len(ns[s].children) : ns[s].children[k] = child

RECURSIVE bumpDepth(_, _, _)
RECURSIVE bumpChildren(_, _, _, _)
bumpChildren(ns, s, k, depth) ==
    IF k > Len(ns[s].children) THEN ns
    ELSE bumpChildren(bumpDepth(ns, ns[s].children[k], depth), s, k + 1, depth)

bumpDepth(ns, s, depth) ==
    IF depth <= ns[s].depth THEN ns
    ELSE bumpChildren([ns EXCEPT ![s].depth = depth], s, 1, depth + 1)

\* the refusal test of SpanBuilder.AddChild
refusesChildKeepsDuplicates(ns, s, child) == child = s \/ hasAncestor(ns, s, child)
\* variant: the ancestors of the node are not looked at
refusesChildIgnoresAncestors(ns, s, child) == child = s \/ hasChild(ns, s, child)
refusesChild(ns, s, child) ==
    child = s \/ hasAncestor(ns, s, child) \/ hasChild(ns, s, child)

\* SpanBuilder.AddChild
AddChild(ns, s, child) ==
    IF refusesChild(ns, s, child) THEN ns
    ELSE LET a == addChild(ns, s, child)
             l == [a EXCEPT ![child].links = Append(@, s)]
             newDepth == l[s].depth + 1
         IN  IF newDepth > l[child].depth THEN bumpDepth(l, child, newDepth) ELSE l

\* the indices pickParentIndex can return
pickParentIndex(ns, maxDepth) ==
    IF maxDepth <= 1 THEN {1}
    ELSE LET room == {i \in 1 .. Len(ns) : ns[i].depth < maxDepth} IN
         IF room = {} THEN {1} ELSE room

\* the children pickLinkCandidate can return, 0 for nil
pickLinkCandidate(ns, parent, maxDepth) ==
    IF Len(ns) < 2 \/ ns[parent].depth >= maxDepth THEN {0}
    ELSE {0} \cup {c \in 1 .. Len(ns) :
                      /\ ~(c = parent \/ hasAncestor(ns, parent, c))
                      /\ ~(ns[parent].depth + 1 > ns[c].depth)}

\* if spansRemaining < 2 { continue }
pairAffordableAlways(remaining) == TRUE
pairAffordableWithOne(remaining) == ~(remaining < 1)
pairAffordable(remaining) == ~(remaining < 2)

GenInit ==
    /\ gen \in {g \in [MaxDepth : 1 .. MaxDepthLimit, MaxSpans : 1 .. MaxSpansLimit,
                        ErrorRate : ErrorRates] :
                    Cardinality(randomSpanStatus(g.ErrorRate)) > 1 =>
                        g.MaxSpans <= MaxRolledSpans}
    /\ nodes = <<>> /\ spansRemaining = 0 /\ gpc = "start"
    /\ collected = <<>> /\ genRet = <<>>
    /\ ghist = [spanCount |-> 0, skippedAt |-> 0, exit |-> ""]

\* emitTrace up to the edge loop: the span count and the root span
EmitRoot ==
    /\ gpc = "start"
    /\ \E spanCount \in randomSpanCount(gen.MaxSpans), rootDuration \in DurationSamples,
          rootKind \in SpanKinds, status \in randomSpanStatus(gen.ErrorRate) :
          LET traceEnd == 10 IN
          /\ nodes' = newSpan(<<>>, [kind |-> rootKind, start |-> traceEnd - rootDuration,
                                     end |-> traceEnd,
                                     http |-> appendHTTPStatusAttribute(rootKind, status.http),
                                     db |-> FALSE, status |-> status], 0)
          /\ spansRemaining' = (IF spanCount < 1 THEN 1 ELSE spanCount) - 1
          /\ ghist' = [ghist EXCEPT !.spanCount = spanCount]
    /\ gpc' = "loop"
    /\ UNCHANGED <<gen, collected, genRet>>
    /\ UNCHANGED exceptGen

\* variant: the loop is never left for lack of room
parentIsFullNever(depth, maxDepth) == FALSE

\* if parent.depth >= g.MaxDepth { break }
parentIsFull(depth, maxDepth) == depth >= maxDepth

\* an iteration whose parent has no room: break
EdgeBreak ==
    /\ gpc = "loop" /\ spansRemaining > 0
    /\ \E parent \in pickParentIndex(nodes, gen.MaxDepth) :
          parentIsFull(nodes[parent].depth, gen.MaxDepth)
    /\ gpc' = "ending"
    /\ ghist' = [ghist EXCEPT !.exit = "depth"]
    /\ UNCHANGED <<gen, nodes, spansRemaining, collected, genRet>>
    /\ UNCHANGED exceptGen

\* choices 0 and 1: a client -> server or producer -> consumer pair
EdgePair ==
    /\ gpc = "loop" /\ spansRemaining > 0
    /\ \E parent \in pickParentIndex(nodes, gen.MaxDepth),
          kinds \in {<<"client", "server">>, <<"producer", "consumer">>} :
          /\ nodes[parent].depth < gen.MaxDepth
          /\ IF ~pairAffordable(spansRemaining)
             THEN /\ ghist' = [ghist EXCEPT !.skippedAt =
                                  IF @ = 0 THEN Len(nodes) ELSE @]
                  /\ UNCHANGED <<nodes, spansRemaining>>
             ELSE \E w1 \in childWindows(nodes[parent]),
                     s1 \in randomSpanStatus(gen.ErrorRate) :
                     LET first == emitChildSpan(nodes, parent, kinds[1], FALSE, w1, s1) IN
                     \E w2 \in childWindows(first[Len(first)]),
                        s2 \in randomSpanStatus(gen.ErrorRate) :
                        /\ nodes' = emitChildSpan(first, Len(first), kinds[2], FALSE, w2, s2)
                        /\ spansRemaining' = spansRemaining - 2
                        /\ UNCHANGED ghist
    /\ UNCHANGED <<gen, gpc, collected, genRet>>
    /\ UNCHANGED exceptGen

\* choice 2: a DB request
EdgeDB ==
    /\ gpc = "loop" /\ spansRemaining > 0
    /\ \E parent \in pickParentIndex(nodes, gen.MaxDepth) :
          /\ nodes[parent].depth < gen.MaxDepth
          /\ \E w \in childWindows(nodes[parent]), s \in randomSpanStatus(gen.ErrorRate) :
                nodes' = emitChildSpan(nodes, parent, "client", TRUE, w, s)
    /\ spansRemaining' = spansRemaining - 1
    /\ UNCHANGED <<gen, gpc, collected, genRet, ghist>>
    /\ UNCHANGED exceptGen

\* choice 3: fan-in
EdgeFanIn ==
    /\ gpc = "loop" /\ spansRemaining > 0
    /\ \E parent \in pickParentIndex(nodes, gen.MaxDepth) :
          /\ nodes[parent].depth < gen.MaxDepth
          /\ \E child \in pickLinkCandidate(nodes, parent, gen.MaxDepth) :
                nodes' = IF child = 0 THEN nodes ELSE AddChild(nodes, parent, child)
    /\ UNCHANGED <<gen, spansRemaining, gpc, collected, genRet, ghist>>
    /\ UNCHANGED exceptGen

\* the loop condition fails
EdgeLoopExit ==
    /\ gpc = "loop" /\ ~(spansRemaining > 0)
    /\ gpc' = "ending"
    /\ ghist' = [ghist EXCEPT !.exit = "budget"]
    /\ UNCHANGED <<gen, nodes, spansRemaining, collected, genRet>>
    /\ UNCHANGED exceptGen

\* builder.EndAll: each span's End hands it to the simple span processor, which
\* exports it to the collector at once
EndAll ==
    /\ gpc = "ending"
    /\ collected' = [k \in 1 .. Len(nodes) |-> Len(nodes) + 1 - k]
    /\ gpc' = "ended"
    /\ UNCHANGED <<gen, nodes, spansRemaining, genRet, ghist>>
    /\ UNCHANGED exceptGen

\* return collector.spans, nil
GenerateReturn ==
    /\ gpc = "ended"
    /\ genRet' = collected
    /\ gpc' = "done"
    /\ UNCHANGED <<gen, nodes, spansRemaining, collected, ghist>>
    /\ UNCHANGED exceptGen

NextGen ==
    \/ EmitRoot \/ EdgeBreak \/ EdgePair \/ EdgeDB \/ EdgeFanIn \/ EdgeLoopExit
    \/ EndAll \/ GenerateReturn

InitGen ==
    GenInit /\ RunIdle /\ ChaosIdle /\ SharedIdle /\ ProcessIdle /\ ValidateIdle /\ ScenarioIdle /\ MergeIdle /\ DagIdle /\ RebuildIdle /\ TwinIdle /\ EdgeIdle
SpecGen == InitGen /\ [][NextGen]_vars

\* ------------------------------------------------------------------------
\* Properties of the Trace Generator
\* ------------------------------------------------------------------------
\* depth of a span in the tree its ParentSpanID builds
RECURSIVE StructuralDepth(_, _)
StructuralDepth(ns, i) ==
    IF ns[i].parentSpan = 0 THEN 1 ELSE 1 + StructuralDepth(ns, ns[i].parentSpan)

Generated == gpc = "done"

\* C22 (as stated): in a generated batch every span's depth along ParentSpanID
\* is at most MaxDepth
C22_Original ==
    Generated => \A k \in 1 .. Len(genRet) : StructuralDepth(nodes, genRet[k]) <= gen.MaxDepth

\* C23: a batch holds between 1 and MaxSpans spans, exactly 1 when MaxSpans = 1
\* or MaxDepth = 1; the spans built plus the remaining budget are the span count
\* drawn, and the budget never goes below zero
C23_BatchSize ==
    /\ spansRemaining >= 0
    /\ gpc \notin {"idle", "start"} =>
          /\ ghist.spanCount \in 1 .. gen.MaxSpans
          /\ Len(nodes) + spansRemaining = ghist.spanCount
    /\ Generated =>
          /\ Len(genRet) >= 1 /\ Len(genRet) <= gen.MaxSpans
          /\ (gen.MaxSpans = 1 \/ gen.MaxDepth = 1) => Len(genRet) = 1

\* a full batch of four spans holding a pair, built after a pair was refused
\* for lack of budget
C23_Witness ==
    /\ Generated /\ gen.MaxSpans = 4 /\ Len(genRet) = 4
    /\ \E i \in 2 .. Len(nodes) : nodes[i].kind = "consumer"
    /\ ghist.skippedAt = 3

\* C24: every span ends after it starts, and a span with a structural parent
\* lies inside its parent's window
C24_TimeContainment ==
    \A i \in 1 .. Len(nodes) :
        /\ nodes[i].end > nodes[i].start
        /\ nodes[i].parentSpan # 0 =>
              /\ nodes[nodes[i].parentSpan].start <= nodes[i].start
              /\ nodes[i].end <= nodes[nodes[i].parentSpan].end

\* a batch with a child of a 1 ms parent (a 2 ms draw is clamped to it) and a
\* child that starts after its parent
C24_Witness ==
    /\ Generated
    /\ \E i \in 2 .. Len(nodes) :
          LET q == nodes[nodes[i].parentSpan] IN
          /\ q.end - q.start = 1 /\ nodes[i].start = q.start /\ nodes[i].end = q.end
    /\ \E i \in 2 .. Len(nodes) : nodes[i].start > nodes[nodes[i].parentSpan].start

\* C25: no span is left Unset, the HTTP status attribute is on Server and Client
\* spans only and agrees with the status; ErrorRate 0 gives Ok / 200 and
\* ErrorRate 1 gives Error "simulated failure" / 500 on every span
C25_StatusByErrorRate ==
    \A i \in 1 .. Len(nodes) :
        LET n == nodes[i] IN
        /\ n.statusCode \in {"Ok", "Error"}
        /\ (n.http # 0) = (n.kind \in {"server", "client"})
        /\ n.http # 0 => n.http = (IF n.statusCode = "Ok" THEN 200 ELSE 500)
        /\ gen.ErrorRate.num = 0 => n.statusCode = "Ok" /\ n.statusDescription = ""
        /\ gen.ErrorRate.num = gen.ErrorRate.den =>
              n.statusCode = "Error" /\ n.statusDescription = "simulated failure"

\* a batch generated with ErrorRate 1 that holds a Server span and a Producer span
C25_Witness ==
    /\ Generated /\ gen.ErrorRate.num = gen.ErrorRate.den
    /\ \E i \in 1 .. Len(nodes) : nodes[i].kind = "server" /\ nodes[i].http = 500
    /\ \E i \in 1 .. Len(nodes) : nodes[i].kind = "producer" /\ nodes[i].http = 0

\* C26 (as stated): the batch is in creation order, so a span with a parent
\* comes after its parent
C26_Original ==
    Generated =>
        /\ \A k \in 1 .. Len(genRet) : genRet[k] = k
        /\ \A k \in 1 .. Len(genRet) :
              nodes[genRet[k]].parentSpan # 0 =>
                  \E m \in 1 .. k - 1 : genRet[m] = nodes[genRet[k]].parentSpan

\* C27 (as stated): once a pair was refused for lack of budget, no span is added
C27_Original == ghist.skippedAt # 0 => Len(nodes) = ghist.skippedAt

NoRoom == \A i \in 1 .. Len(nodes) : nodes[i].depth >= gen.MaxDepth

\* C27: the edge loop is left only with the budget at zero, or with budget left
\* and no node with room under MaxDepth; a pair refused for lack of budget
\* leaves one span of budget and does not end the loop
C27_LoopEnds ==
    /\ gpc = "loop" => ghist.exit = ""
    /\ gpc \in {"ending", "ended", "done"} =>
          \/ ghist.exit = "budget" /\ spansRemaining = 0
          \/ ghist.exit = "depth" /\ spansRemaining > 0 /\ NoRoom
    /\ ghist.skippedAt # 0 =>
          /\ ghist.exit # "depth"
          /\ Len(nodes) + spansRemaining = ghist.skippedAt + 1
          /\ spansRemaining = 1 => gpc = "loop"

\* a batch whose last span was added after a pair was refused for lack of budget
C27_Witness ==
    /\ Generated /\ ghist.skippedAt # 0
    /\ Len(genRet) = ghist.skippedAt + 1
    /\ nodes[Len(nodes)].db

LinkPairs(ns) ==
    UNION {{<<ns[c].links[k], c>> : k \in 1 .. Len(ns[c].links)} : c \in 1 .. Len(ns)}
LinkCount(ns) == SumSeq([c \in 1 .. Len(ns) |-> Len(ns[c].links)])
SpanOf(n) == [n EXCEPT !.links = <<>>, !.depth = 0, !.parents = <<>>, !.children = <<>>]

\* a step that adds a link
C28_Step ==
    LinkCount(nodes') # LinkCount(nodes) =>
        /\ Len(nodes') = Len(nodes) /\ spansRemaining' = spansRemaining
        /\ \A i \in 1 .. Len(nodes) : SpanOf(nodes'[i]) = SpanOf(nodes[i])
        /\ \E s \in 1 .. Len(nodes), child \in 1 .. Len(nodes) :
              /\ nodes'[child].links = Append(nodes[child].links, s)
              /\ \A i \in 1 .. Len(nodes) : i # child => nodes'[i].links = nodes[i].links
              /\ child # s
              /\ ~hasAncestor(nodes, s, child)
              /\ nodes[child].parentSpan # s
              /\ <<s, child>> \notin LinkPairs(nodes)

\* C28: a fan-in edge leaves the number of spans, the budget and every span's
\* ParentSpanID, times, kind and status as they are and appends one link to the
\* child, naming the additional parent; the child is not that parent, not one
\* of its ancestors, not already its child, and not already linked to it
C28_FanIn == [][C28_Step]_vars

\* a batch in which a span carries a link to a span that is not its parent
C28_Witness ==
    /\ Generated
    /\ \E c \in 1 .. Len(nodes) :
          /\ Len(nodes[c].links) = 1
          /\ nodes[c].links[1] # nodes[c].parentSpan
          /\ nodes[c].parentSpan # 0

\* ------------------------------------------------------------------------
\* config.Config.Validate
\* ------------------------------------------------------------------------
Pending == "pending"

IntSamples == {-1, 0, 1}
\* durations in seconds, error rates in tenths
DurationSecondSamples == {-1, 0, 1}
ErrorRateTenths == {-1, 0, 2, 10, 11}

AppConfigs ==
    [Address : {"", "localhost:4317"}, Protocol : {"grpc", "http", "udp"},
     Exporters : IntSamples, PerExporter : IntSamples,
     Interval : DurationSecondSamples, For : DurationSecondSamples,
     Services : {0, 3}, MaxDepth : {0, 3}, MaxSpans : {0, 10},
     ErrorRate : ErrorRateTenths]

\* Config.Validate: the error message, Nil for a nil error
Validate(c) ==
    IF c.Address = "" THEN "endpoint is required"
    ELSE IF c.Protocol # "grpc" /\ c.Protocol # "http" THEN "unsupported protocol"
    ELSE IF c.Exporters <= 0 THEN "exporters must be > 0"
    ELSE IF c.PerExporter <= 0 THEN "max requests must be > 0"
    ELSE IF c.Interval < 0 THEN "request interval must be >= 0"
    ELSE IF c.For < 0 THEN "request duration must be >= 0"
    ELSE IF c.Services <= 0 THEN "services must be > 0"
    ELSE IF c.MaxDepth <= 0 THEN "max depth must be > 0"
    ELSE IF c.MaxSpans <= 0 THEN "max spans must be > 0"
    ELSE IF c.ErrorRate < 0 \/ c.ErrorRate > 10 THEN "error rate must be between 0 and 1"
    ELSE Nil

ValidateInit == appCfg \in AppConfigs /\ validateErr = Pending

\* cfg.Validate()
CallValidate ==
    /\ validateErr = Pending
    /\ validateErr' = Validate(appCfg)
    /\ UNCHANGED appCfg
    /\ UNCHANGED exceptValidate

NextValidate == CallValidate

InitValidate ==
    ValidateInit /\ RunIdle /\ ChaosIdle /\ SharedIdle /\ ProcessIdle /\ GenIdle /\ ScenarioIdle /\ MergeIdle /\ DagIdle /\ RebuildIdle /\ TwinIdle /\ EdgeIdle
SpecValidate == InitValidate /\ [][NextValidate]_vars

\* C29 (as stated): Validate accepts requests.per_exporter = 0 on a config that
\* is valid otherwise, and rejects negative values
C29_Original ==
    validateErr # Pending =>
        /\ appCfg.PerExporter < 0 => validateErr # Nil
        /\ (appCfg.PerExporter = 0 /\ Validate([appCfg EXCEPT !.PerExporter = 1]) = Nil) =>
              validateErr = Nil

\* ------------------------------------------------------------------------
\* scenario.Generator: the batch counter and traceIDFromSeed
\* ------------------------------------------------------------------------
MaxGenerateCalls == 2

\* uint64 values are written as 8 bytes, least significant first
RECURSIVE toBytes(_, _)
toBytes(n, count) == IF count = 0 THEN <<>> ELSE <<n % 256>> \o toBytes(n \div 256, count - 1)

RECURSIVE complement(_)
complement(x) == IF x = <<>> THEN <<>> ELSE <<255 - Head(x)>> \o complement(Tail(x))

\* uint64(seed) of an int64: two's complement for a negative seed
uint64(n) == IF n >= 0 THEN toBytes(n, 8) ELSE complement(toBytes(-n - 1, 8))

RECURSIVE xor8(_, _)
xor8(a, b) ==
    IF a = 0 /\ b = 0 THEN 0
    ELSE (((a % 2) + (b % 2)) % 2) + 2 * xor8(a \div 2, b \div 2)

RECURSIVE xor64(_, _)
xor64(x, y) ==
    IF x = <<>> THEN <<>> ELSE <<xor8(Head(x), Head(y))>> \o xor64(Tail(x), Tail(y))

RECURSIVE pow2(_)
pow2(n) == IF n = 0 THEN 1 ELSE 2 * pow2(n - 1)

RECURSIVE shrFrom(_, _, _)
shrFrom(x, n, i) ==
    IF i > 8 THEN <<>>
    ELSE LET q == n \div 8
             r == n % 8
             low == IF i + q <= 8 THEN x[i + q] ELSE 0
             high == IF i + q + 1 <= 8 THEN x[i + q + 1] ELSE 0
         IN  <<(low \div pow2(r)) + (high % pow2(r)) * pow2(8 - r)>> \o shrFrom(x, n, i + 1)

\* x >> n
shr64(x, n) == shrFrom(x, n, 1)

RECURSIVE addFrom(_, _, _, _)
addFrom(x, y, i, carry) ==
    IF i > 8 THEN <<>>
    ELSE LET t == x[i] + y[i] + carry
         IN  <<t % 256>> \o addFrom(x, y, i + 1, t \div 256)

\* x + y, wrapping at 2^64
add64(x, y) == addFrom(x, y, 1, 0)

RECURSIVE mulColumn(_, _, _, _)
mulColumn(x, y, k, i) == IF i > k THEN 0 ELSE x[i] * y[k + 1 - i] + mulColumn(x, y, k, i + 1)

RECURSIVE mulFrom(_, _, _, _)
mulFrom(x, y, k, carry) ==
    IF k > 8 THEN <<>>
    ELSE LET t == mulColumn(x, y, k, 1) + carry
         IN  <<t % 256>> \o mulFrom(x, y, k + 1, t \div 256)

\* x * y, wrapping at 2^64
mul64(x, y) == mulFrom(x, y, 1, 0)

\* 0x9e3779b97f4a7c15, 0xbf58476d1ce4e5b9, 0x94d049bb133111eb
Gamma == <<21, 124, 74, 127, 185, 121, 55, 158>>
MixA == <<185, 229, 228, 28, 109, 71, 88, 191>>
MixB == <<235, 17, 49, 19, 187, 73, 208, 148>>

splitmix64(x) ==
    LET x1 == add64(x, Gamma)
        x2 == mul64(xor64(x1, shr64(x1, 30)), MixA)
        x3 == mul64(xor64(x2, shr64(x2, 27)), MixB)
    IN  xor64(x3, shr64(x3, 31))

\* binary.BigEndian.PutUint64
RECURSIVE bigEndian(_)
bigEndian(x) == IF x = <<>> THEN <<>> ELSE bigEndian(Tail(x)) \o <<Head(x)>>

ZeroTraceID == <<0, 0, 0, 0, 0, 0, 0, 0, 0, 0, 0, 0, 0, 0, 0, 0>>

\* traceIDFromSeed: the 16 bytes of the TraceID
traceIDFromSeed(s, q) ==
    LET a == splitmix64(xor64(uint64(s), uint64(q)))
        b == splitmix64(xor64(a, Gamma))
        id == bigEndian(a) \o bigEndian(b)
    IN  IF id # ZeroTraceID THEN id ELSE [id EXCEPT ![16] = 1]

SeedSamples == {0, 42, -1}

\* the trace IDs of the seeds and sequence numbers the model reaches
TraceIDs ==
    [s \in SeedSamples, q \in 1 .. MaxWorkers * MaxGenerateCalls |->
        traceIDFromSeed(s, q)]

\* two Generators are built from the definition; the first is shared by the
\* workers, the second is driven by one worker
Generators == {1, 2}
Callers == {<<1, w>> : w \in 1 .. MaxWorkers} \cup {<<2, 1>>}

\* g.counter.Add(1): the new value
counterAddStuck(c) == IF c >= 1 THEN c ELSE c + 1
counterAdd(c) == c + 1

\* the keys of Definition.Nodes and the Root named: no node at all, or the one
\* node "a" with Root naming it or naming a node that is not there
NodeSamples == {{}, {"a"}}
RootSamples == {"a", "x"}

\* NewGenerator(definition), twice
ScenarioInit ==
    /\ definition \in [Seed : SeedSamples, Root : RootSamples, Nodes : NodeSamples]
    /\ counter = [g \in Generators |-> 0]
    /\ spc = [c \in Callers |-> "idle"]
    /\ sequence = [c \in Callers |-> 0]
    /\ callsMade = [c \in Callers |-> 0]
    /\ batches = [g \in Generators |-> {}]

\* GenerateBatch up to sequence := g.counter.Add(1)
TakeSequence(c) ==
    /\ spc[c] = "idle"
    /\ callsMade[c] < MaxGenerateCalls
    /\ callsMade' = [callsMade EXCEPT ![c] = @ + 1]
    /\ IF Cardinality(definition.Nodes) = 0
       THEN /\ batches' = [batches EXCEPT ![c[1]] = @ \cup
                              {[worker |-> c[2], call |-> callsMade[c] + 1, sequence |-> 0,
                                traceID |-> ZeroTraceID,
                                err |-> "scenario definition has no nodes"]}]
            /\ UNCHANGED <<counter, spc, sequence>>
       ELSE /\ counter' = [counter EXCEPT ![c[1]] = counterAdd(@)]
            /\ sequence' = [sequence EXCEPT ![c] = counterAdd(counter[c[1]])]
            /\ spc' = [spc EXCEPT ![c] = "counted"]
            /\ UNCHANGED batches
    /\ UNCHANGED definition
    /\ UNCHANGED exceptScenario

\* the rest of GenerateBatch: the trace ID, then either the error for a Root
\* that is no key of Nodes (no spans, the sequence number stays used) or the
\* spans carrying the trace ID
ReturnBatch(c) ==
    /\ spc[c] = "counted"
    /\ IF definition.Root \notin definition.Nodes
       THEN batches' = [batches EXCEPT ![c[1]] = @ \cup
                          {[worker |-> c[2], call |-> callsMade[c], sequence |-> sequence[c],
                            traceID |-> ZeroTraceID,
                            err |-> "root node not found"]}]
       ELSE batches' = [batches EXCEPT ![c[1]] = @ \cup
                          {[worker |-> c[2], call |-> callsMade[c], sequence |-> sequence[c],
                            traceID |-> TraceIDs[definition.Seed, sequence[c]],
                            err |-> Nil]}]
    /\ spc' = [spc EXCEPT ![c] = "idle"]
    /\ UNCHANGED <<definition, counter, sequence, callsMade>>
    /\ UNCHANGED exceptScenario

NextScenario == \E c \in Callers : TakeSequence(c) \/ ReturnBatch(c)

InitScenario ==
    ScenarioInit /\ RunIdle /\ ChaosIdle /\ SharedIdle /\ ProcessIdle /\ GenIdle /\ ValidateIdle /\ MergeIdle /\ DagIdle /\ RebuildIdle /\ TwinIdle /\ EdgeIdle
SpecScenario == InitScenario /\ [][NextScenario]_vars

\* ------------------------------------------------------------------------
\* Properties of the scenario Generator
\* ------------------------------------------------------------------------
\* the calls that returned spans, the calls that returned after taking a
\* sequence number (with spans or with the root error), the calls between
\* taking their number and returning, and the numbers all of these have taken
Returned(g) == {b \in batches[g] : b.err = Nil}
Counted(g) == {b \in batches[g] : b.sequence # 0}
InFlight(g) == {c \in Callers : c[1] = g /\ spc[c] = "counted"}
Taken(g) == {b.sequence : b \in Counted(g)} \cup {sequence[c] : c \in InFlight(g)}

\* C30: the calls on one Generator that reach the counter take the sequence
\* numbers 1, 2, 3, ... with no duplicate, also when they interleave and also
\* when they end in the root error; no batch has the zero trace ID; and
\* the batches of two Generators built from the same Definition that have the
\* same sequence number have the same trace ID
C30_TraceIDs ==
    /\ \A g \in Generators :
          /\ Taken(g) = 1 .. counter[g]
          /\ Cardinality(Counted(g)) + Cardinality(InFlight(g)) = counter[g]
          /\ \A b \in Returned(g) : b.traceID # ZeroTraceID
    /\ \A b1 \in Returned(1), b2 \in Returned(2) :
          b1.sequence = b2.sequence => b1.traceID = b2.traceID

\* the shared generator's second worker took sequence 1 while the first worker
\* was between taking its number and returning, and both generators have
\* returned their batches 1 and 2
C30_Witness ==
    /\ \E b \in Returned(1) : b.worker = 2 /\ b.sequence = 1
    /\ \E b \in Returned(1) : b.worker = 1 /\ b.sequence = 2
    /\ \E b \in Returned(2) : b.sequence = 2
    /\ \E b1 \in Returned(1), b2 \in Returned(1) : b1.traceID # b2.traceID
    /\ counter[1] = 2 * MaxGenerateCalls

\* ---------------------------------------------------------------------------
\* The worker loop: order of the stop checks, pacing and empty batches
\* ---------------------------------------------------------------------------

\* worker w takes a step of its own
Moves(w) == <<pc'[w], iter'[w]>> # <<pc[w], iter[w]>>

\* worker w has completed the R iterations it was asked for
CountReached(w) == cfg.requests > 0 /\ iter[w] >= cfg.requests

\* C33: at the loop head the stop conditions are evaluated in the order request
\* count, context, duration cap: a worker that completed its R iterations
\* returns nil even when the context is done, a worker whose context is done
\* returns the context's error without looking at the cap, the cap is observed
\* at the loop head only and ends the worker with nil before any Process or
\* export call, an export in flight is never cut short by the cap, and a worker
\* that stopped makes no further call.
C33_Step ==
    \A w \in Workers :
        /\ (pc[w] = "head" /\ Moves(w)) =>
              IF CountReached(w)
              THEN pc'[w] \in Exited /\ ret'[w] = Nil /\ sawCap' = sawCap
              ELSE IF ctxErr # Nil
              THEN pc'[w] \in Exited /\ ret'[w] = ctxErr /\ sawCap' = sawCap
              ELSE sawCap' # sawCap =>
                      /\ cfg.duration > 0
                      /\ pc'[w] \in Exited /\ ret'[w] = Nil
        /\ (pc[w] # "head" /\ Moves(w)) => sawCap' = sawCap
        /\ (pc[w] = "export" /\ Moves(w)) =>
              \/ calls'[w] = calls[w] + 1
              \/ pc'[w] \in Exited /\ ret'[w] = ConvertErr
        /\ pc[w] \in Exited =>
              /\ pc'[w] \in Exited
              /\ calls'[w] = calls[w] /\ stats'[w] = stats[w]

C33_StopOrder == [][C33_Step]_vars

C33_Witness ==
    /\ cfg.workers = 2 /\ cfg.requests = 2 /\ cfg.duration > 0
    /\ ctxErr = Canceled /\ firstFail = <<1, ExportErr>>
    /\ pc[0] = "head" /\ iter[0] = 2 /\ calls[0] = 2
    /\ pc[1] \in Exited
    /\ ~sawCap

\* C34: with requestInterval > 0 a worker sleeps after an iteration exactly when
\* the run is unbounded or the iteration is not the last one, so the sleeps of a
\* worker follow iterations 0 .. R-2 and never the final export; a sleep ends
\* either with the timer, at the next loop head, or with the context's error,
\* and with a cancelled context no further iteration is started.
EndsIteration(w) ==
    \/ pc[w] = "export" /\ pc'[w] \in {"head", "sleep"}
    \/ pc[w] = "head" /\ pc'[w] = "sleep"
    \/ pc[w] = "head" /\ pc'[w] = "head" /\ iter'[w] = iter[w] + 1

C34_Step ==
    \A w \in Workers :
        /\ EndsIteration(w) =>
              /\ pc'[w] = "sleep" <=>
                    (cfg.interval > 0 /\ (cfg.requests = 0 \/ iter[w] < cfg.requests - 1))
              /\ pc'[w] = "sleep" => iter'[w] = iter[w]
              /\ pc'[w] = "head" => iter'[w] = iter[w] + 1
        /\ (pc'[w] = "sleep" /\ pc[w] # "sleep") => EndsIteration(w)
        /\ (pc[w] = "sleep" /\ Moves(w)) =>
              \/ pc'[w] = "head" /\ iter'[w] = iter[w] + 1 /\ ~CountReached(w)'
              \/ ctxErr # Nil /\ pc'[w] \in Exited /\ ret'[w] = ctxErr
        /\ (pc[w] = "head" /\ ctxErr # Nil /\ Moves(w)) => pc'[w] \in Exited

C34_Pacing == [][C34_Step]_vars

C34_Witness ==
    /\ cfg.interval > 0 /\ cfg.requests = 2 /\ cfg.workers = 2
    /\ pc[0] = "sleep" /\ iter[0] = 0 /\ calls[0] = 1
    /\ pc[1] \in Exited /\ ret[1] = Nil /\ calls[1] = 2
    /\ ctxErr = Nil

\* C35: an iteration whose batch is empty calls no exporter and records no
\* metric, yet it advances the iteration count like any other; the merged Total
\* is the number of exporter calls, all made for non-empty batches, so a bounded
\* run that saw an empty batch ends with Total < W * R.
C35_Step ==
    \A w \in Workers :
        (pc[w] = "head" /\ EndsIteration(w)) =>
            /\ calls' = calls /\ stats' = stats /\ callErrs' = callErrs
            /\ sawEmpty'
            /\ pc'[w] = "head" => iter'[w] = iter[w] + 1

C35_State ==
    /\ \A w \in Workers :
          /\ cfg.requests > 0 => calls[w] <= cfg.requests
          /\ stats[w] # NilStats => Len(stats[w].durations) = calls[w]
    /\ runDone =>
          /\ summary.Total = TotalCalls
          /\ (sawEmpty /\ cfg.requests > 0) => summary.Total < cfg.workers * cfg.requests

C35_EmptyBatch == [](C35_State) /\ [][C35_Step]_vars

C35_Witness ==
    /\ runDone /\ runErr = Nil /\ ~sawFault /\ ~sawCap /\ parentErr = Nil
    /\ sawEmpty /\ cfg.workers = 2 /\ cfg.requests = 2 /\ cfg.duration = 0
    /\ summary.Total = 3

\* ---------------------------------------------------------------------------
\* metrics: Summarize over the workers' collectors against a single collector
\* ---------------------------------------------------------------------------
MaxCollectors == 2
MaxRecorded == 3

\* durations of the recorded calls
RecordedDurations == {1, 2, 4}

MergeInit ==
    /\ \E n \in 1 .. MaxCollectors :
          collectors \in [1 .. n -> {NilStats, NewStats}]
    /\ single = NewStats
    /\ recorded = <<>>
    /\ merged = ZeroSummary /\ alone = ZeroSummary /\ mergeDone = FALSE

\* one Record call on collector w, seen by the single collector as well
RecordCall(w) ==
    /\ ~mergeDone
    /\ w \in DOMAIN collectors /\ collectors[w] # NilStats
    /\ Len(recorded) < MaxRecorded
    /\ \E d \in RecordedDurations, err \in {Nil, ExportErr} :
          /\ collectors' = [collectors EXCEPT ![w] = Record(collectors[w], d, err)]
          /\ single' = Record(single, d, err)
          /\ recorded' = Append(recorded, [w |-> w, d |-> d, err |-> err])
    /\ UNCHANGED <<merged, alone, mergeDone>>
    /\ UNCHANGED exceptMerge

\* Summarize(stats) next to single.Summary()
TakeSummaries ==
    /\ ~mergeDone
    /\ merged' = Summarize(collectors)
    /\ alone' = StatsSummary(single)
    /\ mergeDone' = TRUE
    /\ UNCHANGED <<collectors, single, recorded>>
    /\ UNCHANGED exceptMerge

NextMerge == (\E w \in 1 .. MaxCollectors : RecordCall(w)) \/ TakeSummaries

InitMerge ==
    MergeInit /\ RunIdle /\ ChaosIdle /\ SharedIdle /\ ProcessIdle /\ GenIdle /\ ValidateIdle /\ ScenarioIdle /\ DagIdle /\ RebuildIdle /\ TwinIdle /\ EdgeIdle
SpecMerge == InitMerge /\ [][NextMerge]_vars

\* the recorded durations in ascending order
SortedRecorded ==
    SortSeq([i \in 1 .. Len(recorded) |-> recorded[i].d], LAMBDA a, b : a < b)

\* the recorded calls that returned an error
FailedRecorded == {i \in 1 .. Len(recorded) : recorded[i].err # Nil}

\* C32: Summarize over the per-worker collectors, nil entries skipped, returns
\* the Summary of one collector that recorded all the calls: Total is the
\* number of calls, Successes and Failures count the calls without and with an
\* error, AvgLatency is the sum of the durations divided by Total, P95Latency
\* the sorted duration at index floor((N-1) * 0.95), and all is zero when no
\* call was recorded.
C32_MergeIsSingle ==
    mergeDone =>
        LET n == Len(recorded) IN
        /\ merged = alone
        /\ merged.Total = n
        /\ merged.Failures = Cardinality(FailedRecorded)
        /\ merged.Successes = n - Cardinality(FailedRecorded)
        /\ n = 0 => merged = ZeroSummary
        /\ n > 0 =>
              /\ merged.AvgLatency = SumSeq(SortedRecorded) \div n
              /\ ((n - 1) * 95) \div 100 + 1 \in 1 .. n
              /\ merged.P95Latency = SortedRecorded[((n - 1) * 95) \div 100 + 1]

C32_Witness ==
    /\ mergeDone /\ Len(collectors) = 2
    /\ collectors[1] # NilStats /\ collectors[2] # NilStats
    /\ Len(collectors[1].durations) = 1 /\ Len(collectors[2].durations) = 2
    /\ merged.Total = 3 /\ merged.Failures = 1
    /\ merged.P95Latency = 2 /\ merged.AvgLatency = 2

\* ---------------------------------------------------------------------------
\* Engine.Apply in mode all: policies that rewrite what later policies match on
\* ---------------------------------------------------------------------------
PolReroute ==
    [probability |-> 100,
     match |-> Match("", "", {}, ("http.route" :> StringValue("/posts"))),
     actions |-> << SetAttribute("span", "http.route", StringValue("/chaos")),
                    SetStatus("Error", "rerouted") >>]

PolOnChaos ==
    [probability |-> 100,
     match |-> Match("", "", {}, ("http.route" :> StringValue("/chaos"))),
     actions |-> << SetStatus("Unset", "late"),
                    SetAttribute("span", "http.route", StringValue("/late")) >>]

RewritePool == {PolReroute, PolOnChaos, PolRoute, PolAll, PolStatus}

RewriteInit ==
    /\ chaosCfg \in [PolicyMode : {"all", "first_match"},
                     Policies : SeqsUpTo(RewritePool, MaxPolicies) \ {<<>>}]
    /\ engine = NewEngine(chaosCfg)
    /\ deciderNil \in BOOLEAN
    /\ spans \in SeqsUpTo({SpanPost, SpanGet}, MaxBatch) \ {<<>>}
    /\ heap = InputHeap
    /\ out = NilSlice
    /\ writable = NilSlice
    /\ current = NilPtr
    /\ si = 0
    /\ pj = 0
    /\ apc = "call"
    /\ result = Null
    /\ spans0 = spans
    /\ log = <<>>

InitRewrite == RewriteInit /\ RunIdle /\ SharedIdle /\ LaterIdle
SpecRewrite == InitRewrite /\ [][NextChaos]_vars

\* input span i on a heap of its own: its attributes at 1, its resource at 2
OwnSpan(i) ==
    [span |-> [spans0[i] EXCEPT !.Attributes = 1, !.ResourceAttributes = 2],
     heap |-> << MapAt(InputHeap, spans0[i].Attributes),
                 MapAt(InputHeap, spans0[i].ResourceAttributes) >>]

\* span i after the actions of the policies applied to it in log entries 1 .. n,
\* one policy after the other in the order of the log
RECURSIVE AfterApplied(_, _)
AfterApplied(i, n) ==
    IF n = 0 THEN OwnSpan(i)
    ELSE LET before == AfterApplied(i, n - 1)
         IN  IF log[n].span = i /\ log[n].applied
             THEN applyActions(before.span, before.heap,
                               engine.policies[log[n].policy].actions)
             ELSE before

\* a span with its two maps in place of their addresses
Flat(span, h) ==
    [Name |-> span.Name, Kind |-> span.Kind,
     StartTime |-> span.StartTime, EndTime |-> span.EndTime,
     StatusCode |-> span.StatusCode, StatusDescription |-> span.StatusDescription,
     Attributes |-> MapAt(h, span.Attributes),
     ResourceAttributes |-> MapAt(h, span.ResourceAttributes)]

\* C36: in mode all every policy is matched against the span as the policies
\* applied to it earlier in the same call left it, not against the input span,
\* and the span returned is the input span with the actions of the applied
\* policies carried out one after the other in file order.
C36_MatchSeesEarlierWrites ==
    engine.mode = "all" =>
        /\ \A k \in 1 .. Len(log) :
              LET before == AfterApplied(log[k].span, k - 1)
              IN  log[k].matched =
                      matches(before.span, before.heap,
                              engine.policies[log[k].policy].match)
        /\ (apc = "done" /\ result = "out") =>
              \A i \in 1 .. Len(out) :
                  LET final == AfterApplied(i, Len(log))
                  IN  Flat(out[i], heap) = Flat(final.span, final.heap)

\* a call in mode all ended in which the second policy matched a span only
\* because of the first one's set_attribute, and overrode its status
C36_Witness ==
    /\ apc = "done" /\ engine.mode = "all" /\ result = "out"
    /\ engine.policies = <<PolReroute, PolOnChaos>>
    /\ spans0 = <<SpanPost>>
    /\ ~matches(spans0[1], InputHeap, PolOnChaos.match)
    /\ Len(log) = 2 /\ log[1].applied /\ log[2].matched /\ log[2].applied
    /\ out[1].StatusDescription = "late"
    /\ heap[out[1].Attributes]["http.route"] = StringValue("/late")

\* ---------------------------------------------------------------------------
\* The trace builder's depth bookkeeping and its parent/child graph
\* ---------------------------------------------------------------------------

\* C37 as stated: a node's recorded depth is at least 1 + the recorded depth of
\* each of its parents, structural or linked, and at least its structural depth
\* along ParentSpanID.
C37_Original ==
    \A c \in 1 .. Len(nodes) :
        /\ nodes[c].depth >= StructuralDepth(nodes, c)
        /\ \A k \in 1 .. Len(nodes[c].parents) :
              nodes[c].depth >= nodes[nodes[c].parents[k]].depth + 1

MaxBuilderNodes == 3

\* the SpanSpec of the spans added to the builder
PlainSpec ==
    [kind |-> "internal", start |-> 0, end |-> 10,
     http |-> appendHTTPStatusAttribute("internal", StatusOk.http),
     db |-> FALSE, status |-> StatusOk]

\* NewTraceBuilder: no node yet
BuilderInit ==
    /\ nodes = <<>> /\ gpc = "builder"
    /\ gen = [MaxDepth |-> 0, MaxSpans |-> 0, ErrorRate |-> [num |-> 0, den |-> 1]]
    /\ spansRemaining = 0 /\ collected = <<>> /\ genRet = <<>>
    /\ ghist = [spanCount |-> 0, skippedAt |-> 0, exit |-> ""]

\* TraceBuilder.AddSpan
BuilderAddSpan ==
    /\ gpc = "builder" /\ Len(nodes) < MaxBuilderNodes
    /\ nodes' = newSpan(nodes, PlainSpec, 0)
    /\ UNCHANGED <<gen, spansRemaining, gpc, collected, genRet, ghist>>
    /\ UNCHANGED exceptGen

\* SpanBuilder.AddChildSpan on node s
BuilderAddChildSpan(s) ==
    /\ gpc = "builder" /\ Len(nodes) < MaxBuilderNodes
    /\ s \in 1 .. Len(nodes)
    /\ nodes' = newSpan(nodes, PlainSpec, s)
    /\ UNCHANGED <<gen, spansRemaining, gpc, collected, genRet, ghist>>
    /\ UNCHANGED exceptGen

\* SpanBuilder.AddChild on node s with any node of the builder as the child
BuilderAddChild(s, child) ==
    /\ gpc = "builder"
    /\ s \in 1 .. Len(nodes) /\ child \in 1 .. Len(nodes)
    /\ nodes' = AddChild(nodes, s, child)
    /\ UNCHANGED <<gen, spansRemaining, gpc, collected, genRet, ghist>>
    /\ UNCHANGED exceptGen

NextBuilder ==
    \/ BuilderAddSpan
    \/ \E s \in 1 .. MaxBuilderNodes : BuilderAddChildSpan(s)
    \/ \E s \in 1 .. MaxBuilderNodes, child \in 1 .. MaxBuilderNodes : BuilderAddChild(s, child)

InitBuilder ==
    BuilderInit /\ RunIdle /\ ChaosIdle /\ SharedIdle /\ ProcessIdle /\ ValidateIdle /\ ScenarioIdle /\ MergeIdle /\ DagIdle /\ RebuildIdle /\ TwinIdle /\ EdgeIdle
SpecBuilder == InitBuilder /\ [][NextBuilder]_vars

\* the parents, structural or linked, of the nodes in S
ParentsOf(ns, S) ==
    UNION {{ns[i].parents[k] : k \in 1 .. Len(ns[i].parents)} : i \in S}

\* the nodes reached from S along at most n parent edges
RECURSIVE AncestorsWithin(_, _, _)
AncestorsWithin(ns, S, n) ==
    IF n = 0 \/ S = {} THEN {}
    ELSE ParentsOf(ns, S) \cup AncestorsWithin(ns, ParentsOf(ns, S), n - 1)

\* the edges the children lists hold are the edges the parents lists hold
EdgesAgree(ns) ==
    \A a \in 1 .. Len(ns), b \in 1 .. Len(ns) :
        (\E k \in 1 .. Len(ns[a].children) : ns[a].children[k] = b)
        <=> (\E k \in 1 .. Len(ns[b].parents) : ns[b].parents[k] = a)

\* C38: the graph of structural and fan-in edges is acyclic after any sequence
\* of AddSpan, AddChildSpan and AddChild calls: no node is among its own
\* ancestors, and AddChild changes nothing when the child is the node itself
\* or one of its ancestors, so the walks of hasAncestor and bumpDepth end.
C38_Acyclic ==
    /\ \A i \in 1 .. Len(nodes) : i \notin AncestorsWithin(nodes, {i}, Len(nodes))
    /\ EdgesAgree(nodes)
    /\ \A s \in 1 .. Len(nodes), c \in 1 .. Len(nodes) :
          (c = s \/ c \in AncestorsWithin(nodes, {s}, Len(nodes)))
          => AddChild(nodes, s, c) = nodes

\* a builder in which node c is an ancestor of node s through a fan-in edge
\* only, so that s.AddChild(c), which would close a cycle, is refused
C38_Witness ==
    /\ gpc = "builder"
    /\ \E s \in 1 .. Len(nodes), c \in 1 .. Len(nodes) :
          /\ Len(nodes[s].parents) = 2
          /\ nodes[s].parentSpan # 0 /\ nodes[s].parentSpan # c
          /\ nodes[nodes[s].parentSpan].parentSpan = 0
          /\ nodes[s].parents[2] = c
          /\ ~hasChild(nodes, s, c)
          /\ AddChild(nodes, s, c) = nodes

\* ---------------------------------------------------------------------------
\* Termination of Generator.emitTrace
\* ---------------------------------------------------------------------------

\* GenerateBatch with the error rate fixed, the statuses playing no part in the
\* loop, and the smallest and the largest depth limit
FairGenInit ==
    /\ GenInit
    /\ gen.ErrorRate = [num |-> 0, den |-> 1]
    /\ gen.MaxDepth \in {1, MaxDepthLimit}

InitGenFair ==
    FairGenInit /\ RunIdle /\ ChaosIdle /\ SharedIdle /\ ProcessIdle /\ ValidateIdle /\ ScenarioIdle /\ MergeIdle /\ DagIdle /\ RebuildIdle /\ TwinIdle /\ EdgeIdle

\* the steps of the program are taken when they can be, and the random edge
\* choice does not avoid the DB edge for ever
SpecGenFair ==
    /\ InitGenFair /\ [][NextGen]_vars
    /\ WF_vars(EmitRoot) /\ WF_vars(EdgeBreak) /\ WF_vars(EdgeLoopExit)
    /\ WF_vars(EndAll) /\ WF_vars(GenerateReturn)
    /\ WF_vars(EdgeDB)

\* no iteration of the edge loop increases the remaining budget
C39_Step == gpc = "loop" => spansRemaining' <= spansRemaining

\* C39: emitTrace terminates for every MaxDepth >= 1 and MaxSpans >= 1 when the
\* edge choice is fair: the loop, which retries after an unaffordable pair and
\* after a fan-in without candidate, ends with the budget used up or with a
\* break for lack of room, and no iteration increases the remaining budget.
C39_Terminates ==
    /\ <>(gpc = "done" /\ ghist.exit \in {"budget", "depth"})
    /\ [][C39_Step]_vars

\* a generated batch whose loop skipped an unaffordable pair and then spent the
\* last span of the budget on a DB edge
C39_Witness ==
    /\ gpc = "done" /\ ghist.exit = "budget"
    /\ ghist.skippedAt >= 2
    /\ spansRemaining = 0
    /\ Len(nodes) = ghist.spanCount /\ Len(nodes) = ghist.skippedAt + 1
    /\ \E c \in 1 .. Len(nodes) : Len(nodes[c].parents) = 2

\* ---------------------------------------------------------------------------
\* Scenario: Config.Validate, validateDAG, Config.Build and the edge traversal
\* of Generator.GenerateBatch
\* ---------------------------------------------------------------------------
MaxEdges == 2

CycleErr == "scenario must be a DAG (cycle detected)"
EdgesRequiredErr == "edges are required"

\* the node ids of the scenario configs
NodeIDs == {1, 2, 3}

\* the root of the scenario configs
RootID == CHOOSE id \in NodeIDs : \A other \in NodeIDs : id <= other

\* EdgeKind
PairKinds == {"client_server", "producer_consumer", "client_database"}
EdgeKinds == PairKinds \cup {"internal"}

\* the values of repeat
RepeatSamples == {1, 2}

EdgeConfigs == [From : NodeIDs, To : NodeIDs, Kind : EdgeKinds, Repeat : RepeatSamples]

\* orders in which a range over the node map can visit the ids: those that do
\* not begin with the root
NodeOrders ==
    {q \in [1 .. Cardinality(NodeIDs) -> NodeIDs] :
        /\ \A a, b \in DOMAIN q : a # b => q[a] # q[b]
        /\ q[1] # RootID}

\* indegree[edge.To]++ over the edges
indegreeOf(edges, id) == Cardinality({k \in 1 .. Len(edges) : edges[k].To = id})

\* adjacency[id]: the targets of the edges leaving id, in edge order
adjacencyOf(edges, id) ==
    LET from == SelectSeq(edges, LAMBDA e : e.From = id)
    IN  [k \in 1 .. Len(from) |-> from[k].To]

\* the inner loop of validateDAG over the children of the dequeued node
RECURSIVE relax(_, _, _)
relax(children, indegree, queue) ==
    IF children = <<>> THEN [indegree |-> indegree, queue |-> queue]
    ELSE LET child == Head(children)
             lowered == [indegree EXCEPT ![child] = @ - 1]
         IN  relax(Tail(children), lowered,
                   IF lowered[child] = 0 THEN Append(queue, child) ELSE queue)

\* the queue loop of validateDAG: the number of nodes visited
RECURSIVE visit(_, _, _, _)
visit(edges, indegree, queue, visited) ==
    IF queue = <<>> THEN visited
    ELSE LET r == relax(adjacencyOf(edges, Head(queue)), indegree, Tail(queue))
         IN  visit(edges, r.indegree, r.queue, visited + 1)

\* variant: the count of visited nodes is not compared with the number of nodes
validateDAGAcceptsAll(ids, edges, order) == Nil

\* validateDAG; order is the order in which the range over indegree visits the ids
validateDAG(ids, edges, order) ==
    LET indegree == [id \in ids |-> indegreeOf(edges, id)]
        queue == SelectSeq(order, LAMBDA id : indegree[id] = 0)
    IN  IF visit(edges, indegree, queue, 0) # Cardinality(ids) THEN CycleErr ELSE Nil

\* scenario Config.Validate: the checks on the fields the configs here vary
scenarioValidate(c, order) ==
    IF Len(c.Edges) = 0 THEN EdgesRequiredErr
    ELSE validateDAG(c.Nodes, c.Edges, order)

\* Config.Build: the Definition, or the error of Validate
Build(c, order) ==
    LET err == scenarioValidate(c, order)
    IN  IF err # Nil
        THEN [definition |-> [Root |-> 0, Nodes |-> {}, Edges |-> <<>>], err |-> err]
        ELSE [definition |-> [Root |-> c.Root, Nodes |-> c.Nodes, Edges |-> c.Edges],
              err |-> Nil]

\* NewGenerator: outgoing[node], the edges leaving the node in definition order
outgoing(def, node) == SelectSeq(def.Edges, LAMBDA e : e.From = node)

firstKind(kind) ==
    IF kind = "producer_consumer" THEN "producer" ELSE "client"
secondKind(kind) ==
    IF kind = "producer_consumer" THEN "consumer" ELSE "server"

\* the spans one repetition of an edge appends; a span's id is its position
edgeSpans(list, parentSpanID, edge) ==
    IF edge.Kind = "internal"
    THEN Append(list, [node |-> edge.To, kind |-> "internal", parent |-> parentSpanID])
    ELSE Append(Append(list, [node |-> edge.From, kind |-> firstKind(edge.Kind),
                              parent |-> parentSpanID]),
                [node |-> edge.To, kind |-> secondKind(edge.Kind),
                 parent |-> Len(list) + 1])

\* Generator.emitFromNode: for each edge, for each repetition, the edge's spans
\* and then the traversal of the target under the last of them
RECURSIVE emitFromNode(_, _, _, _)
RECURSIVE emitEdges(_, _, _, _, _, _)
emitEdges(def, list, parentSpanID, nodeID, e, i) ==
    LET edges == outgoing(def, nodeID)
    IN  IF e > Len(edges) THEN list
        ELSE IF ~(i < edges[e].Repeat)
        THEN emitEdges(def, list, parentSpanID, nodeID, e + 1, 0)
        ELSE LET own == edgeSpans(list, parentSpanID, edges[e])
                 below == emitFromNode(def, own, Len(own), edges[e].To)
             IN  emitEdges(def, below, parentSpanID, nodeID, e, i + 1)

emitFromNode(def, list, parentSpanID, nodeID) ==
    emitEdges(def, list, parentSpanID, nodeID, 1, 0)

\* Generator.GenerateBatch: the root span, then the traversal from the root
GenerateBatch(def) ==
    emitFromNode(def, <<[node |-> def.Root, kind |-> "internal", parent |-> 0]>>,
                 1, def.Root)

DagInit ==
    /\ scenarioCfg \in [Root : {RootID}, Nodes : {NodeIDs},
                        Edges : SeqsUpTo(EdgeConfigs, MaxEdges)]
    /\ built = [Root |-> 0, Nodes |-> {}, Edges |-> <<>>]
    /\ buildErr = Nil /\ emitted = <<>> /\ bpc = "config"

\* definition, err := cfg.Build()
CallBuild ==
    /\ bpc = "config"
    /\ \E order \in NodeOrders :
          LET b == Build(scenarioCfg, order)
          IN  built' = b.definition /\ buildErr' = b.err
    /\ bpc' = "built"
    /\ UNCHANGED <<scenarioCfg, emitted>>
    /\ UNCHANGED exceptDag

\* NewGenerator(definition).GenerateBatch(ctx), for a Definition Build returned
CallGenerateBatch ==
    /\ bpc = "built" /\ buildErr = Nil
    /\ emitted' = GenerateBatch(built)
    /\ bpc' = "generated"
    /\ UNCHANGED <<scenarioCfg, built, buildErr>>
    /\ UNCHANGED exceptDag

NextDag == CallBuild \/ CallGenerateBatch

InitDag ==
    DagInit /\ RunIdle /\ ChaosIdle /\ SharedIdle /\ ProcessIdle /\ GenIdle /\ ValidateIdle /\ ScenarioIdle /\ MergeIdle /\ RebuildIdle /\ TwinIdle /\ EdgeIdle
SpecDag == InitDag /\ [][NextDag]_vars

\* the nodes reached from the nodes of S along at least one and at most n edges
RECURSIVE ReachedWithin(_, _, _)
ReachedWithin(edges, S, n) ==
    IF n = 0 \/ S = {} THEN {}
    ELSE LET next == {edges[k].To : k \in {j \in 1 .. Len(edges) : edges[j].From \in S}}
         IN  next \cup ReachedWithin(edges, next, n - 1)

\* the edges contain a directed cycle
HasCycle(c) ==
    \E id \in c.Nodes : id \in ReachedWithin(c.Edges, {id}, Cardinality(c.Nodes))

\* k(e): the spans one repetition of an edge adds
SpansPerEdge(edge) == IF edge.Kind = "internal" THEN 1 ELSE 2

\* N(n): the sum over the edges e leaving n of repeat(e) * (k(e) + N(e.to))
RECURSIVE SpansBelow(_, _)
RECURSIVE SumEdges(_, _, _)
SumEdges(def, edges, k) ==
    IF k > Len(edges) THEN 0
    ELSE edges[k].Repeat * (SpansPerEdge(edges[k]) + SpansBelow(def, edges[k].To))
         + SumEdges(def, edges, k + 1)

SpansBelow(def, n) == SumEdges(def, outgoing(def, n), 1)

\* C31: Validate rejects every config whose edges contain a directed cycle and
\* accepts the acyclic ones that pass its other checks; for every Definition
\* Build returns, the traversal of GenerateBatch ends and emits 1 + N(root)
\* spans, each edge repetition adding 1 span for an internal edge and 2 for the
\* other kinds, every span but the root under a span emitted before it.
C31_DagAndCount ==
    /\ bpc # "config" =>
          /\ HasCycle(scenarioCfg) => buildErr = CycleErr
          /\ (~HasCycle(scenarioCfg) /\ Len(scenarioCfg.Edges) > 0) => buildErr = Nil
          /\ buildErr = Nil => built.Edges = scenarioCfg.Edges
    /\ bpc = "generated" =>
          /\ Len(emitted) = 1 + SpansBelow(built, built.Root)
          /\ emitted[1].parent = 0
          /\ \A k \in 2 .. Len(emitted) : emitted[k].parent \in 1 .. (k - 1)

\* a batch for a definition whose root has a repeated pair edge to a node with
\* an internal edge: 1 + 2 * (2 + 1 * (1 + 0)) = 7 spans
C31_Witness ==
    /\ bpc = "generated"
    /\ Len(built.Edges) = 2
    /\ built.Edges[1].From = built.Root /\ built.Edges[1].Repeat = 2
    /\ built.Edges[1].Kind = "client_database"
    /\ built.Edges[2].From = built.Edges[1].To /\ built.Edges[2].Kind = "internal"
    /\ built.Edges[2].Repeat = 1
    /\ Len(emitted) = 7

\* ---------------------------------------------------------------------------
\* model: orderForRebuild
\* ---------------------------------------------------------------------------
MaxRebuild == 3

\* SpanID and ParentSpanID values; 0 is the zero, invalid id
SpanIDs == {0, 1, 2}

\* the spans of the batches: SpanID, ParentSpanID and StartTime
RebuildSpans == [SpanID : SpanIDs, ParentSpanID : SpanIDs, StartTime : {0, 1}]

\* SpanID.IsValid
IsValid(id) == id # 0

\* the less function of the sort: StartTime, then the hex string of the SpanID
lessForRebuild(a, b) ==
    IF a.StartTime = b.StartTime THEN a.SpanID < b.SpanID
    ELSE a.StartTime < b.StartTime

\* sort.SliceStable: equal elements keep their order
RECURSIVE insertStable(_, _)
insertStable(sorted, x) ==
    IF sorted = <<>> THEN <<x>>
    ELSE IF lessForRebuild(x, Head(sorted)) THEN <<x>> \o sorted
    ELSE <<Head(sorted)>> \o insertStable(Tail(sorted), x)

RECURSIVE sortStable(_, _)
sortStable(sorted, rest) ==
    IF rest = <<>> THEN sorted
    ELSE sortStable(insertStable(sorted, Head(rest)), Tail(rest))

\* exists: the valid SpanIDs of the batch
existsIDs(list) == {list[k].SpanID : k \in {j \in 1 .. Len(list) : IsValid(list[j].SpanID)}}

\* one pass over ordered from index k: spans whose parent is in the batch and
\* not yet added are left for a later pass
RECURSIVE pass(_, _, _, _, _)
pass(list, k, res, ids, progress) ==
    IF k > Len(list) THEN [result |-> res, added |-> ids, progress |-> progress]
    ELSE LET span == list[k]
             parentValid == IsValid(span.ParentSpanID)
             parentUnknown == parentValid /\ span.ParentSpanID \notin existsIDs(list)
             parentAdded == IF parentValid THEN span.ParentSpanID \in ids ELSE TRUE
         IN  IF IsValid(span.SpanID) /\ span.SpanID \in ids
             THEN pass(list, k + 1, res, ids, progress)
             ELSE IF ~parentUnknown /\ parentValid /\ ~parentAdded
             THEN pass(list, k + 1, res, ids, progress)
             ELSE pass(list, k + 1, Append(res, span),
                       IF IsValid(span.SpanID) THEN ids \cup {span.SpanID} ELSE ids,
                       TRUE)

\* the loop taken after a pass without progress
RECURSIVE fallback(_, _, _, _)
fallback(list, k, res, ids) ==
    IF k > Len(list) THEN [result |-> res, added |-> ids]
    ELSE LET span == list[k]
         IN  IF ~IsValid(span.SpanID) \/ span.SpanID \notin ids
             THEN fallback(list, k + 1, Append(res, span),
                           IF IsValid(span.SpanID) THEN ids \cup {span.SpanID} ELSE ids)
             ELSE fallback(list, k + 1, res, ids)

RebuildInit ==
    /\ rebuildIn \in SeqsUpTo(RebuildSpans, MaxRebuild) \ {<<>>}
    /\ orderedSpans = <<>> /\ resultSpans = <<>> /\ addedIDs = {}
    /\ rpc = "call" /\ lastLen = -1

\* the copy and the stable sort
RebuildSort ==
    /\ rpc = "call"
    /\ orderedSpans' = sortStable(<<>>, rebuildIn)
    /\ rpc' = "head"
    /\ UNCHANGED <<rebuildIn, resultSpans, addedIDs, lastLen>>
    /\ UNCHANGED exceptRebuild

\* one iteration of for len(result) < len(ordered): a pass, and the fallback
\* loop when the pass made no progress
RebuildRound ==
    /\ rpc = "head" /\ Len(resultSpans) < Len(orderedSpans)
    /\ LET p == pass(orderedSpans, 1, resultSpans, addedIDs, FALSE)
           f == fallback(orderedSpans, 1, p.result, p.added)
       IN  IF p.progress
           THEN resultSpans' = p.result /\ addedIDs' = p.added
           ELSE resultSpans' = f.result /\ addedIDs' = f.added
    /\ lastLen' = Len(resultSpans)
    /\ UNCHANGED <<rebuildIn, orderedSpans, rpc>>
    /\ UNCHANGED exceptRebuild

\* return result
RebuildReturn ==
    /\ rpc = "head" /\ ~(Len(resultSpans) < Len(orderedSpans))
    /\ rpc' = "done"
    /\ UNCHANGED <<rebuildIn, orderedSpans, resultSpans, addedIDs, lastLen>>
    /\ UNCHANGED exceptRebuild

NextRebuild == RebuildSort \/ RebuildRound \/ RebuildReturn

InitRebuild ==
    RebuildInit /\ RunIdle /\ ChaosIdle /\ SharedIdle /\ ProcessIdle /\ GenIdle /\ ValidateIdle /\ ScenarioIdle /\ MergeIdle /\ DagIdle /\ TwinIdle /\ EdgeIdle
SpecRebuild == InitRebuild /\ [][NextRebuild]_vars

\* how many times a span occurs in a list
Occurrences(list, x) == Cardinality({k \in 1 .. Len(list) : list[k] = x})

\* the two lists hold the same spans the same number of times
IsPermutation(a, b) ==
    /\ Len(a) = Len(b)
    /\ \A x \in RebuildSpans : Occurrences(a, x) = Occurrences(b, x)

\* following ParentSpanID from a span of the list never comes back to its id
ParentsAcyclic(list) ==
    \A k \in 1 .. Len(list) :
        IsValid(list[k].SpanID) =>
            list[k].SpanID \notin
                ReachedWithin([j \in 1 .. Len(list) |->
                                  [From |-> list[j].SpanID, To |-> list[j].ParentSpanID]],
                              {list[k].SpanID}, Len(list)) \ {0}

\* a round of the loop appended nothing: the next rounds are the same, for ever
RoundAddedNothing ==
    rpc = "head" /\ lastLen = Len(resultSpans) /\ Len(resultSpans) < Len(orderedSpans)

\* C40 as stated: orderForRebuild terminates on every input and returns a
\* permutation of the batch, also with zero or duplicate SpanIDs or cyclic
\* parent references, in which every span whose parent is in the batch comes
\* after that parent whenever the parent relation is acyclic.
C40_Original ==
    /\ ~RoundAddedNothing
    /\ rpc = "done" =>
          /\ IsPermutation(resultSpans, rebuildIn)
          /\ ParentsAcyclic(rebuildIn) =>
                \A c \in 1 .. Len(resultSpans) :
                    LET parentID == resultSpans[c].ParentSpanID
                    IN  (IsValid(parentID) /\ parentID \in existsIDs(rebuildIn))
                        => \E q \in 1 .. (c - 1) : resultSpans[q].SpanID = parentID

\* ---------------------------------------------------------------------------
\* Two engines with the same policies and deciders of the same seed
\* ---------------------------------------------------------------------------
MaxTwinBatches == 2

\* policies, two of them with a probability strictly between 0 and 1
TwinPool == {PolRoute, PolClient, PolStatus}

\* the batches handed to the engines
TwinBatchPool == {<<SpanPost, SpanGet>>, <<SpanGet>>, <<SpanPost>>}

\* the first engine with its decider, NewSeededShouldApply(seed), before its
\* first Apply call
TwinInit ==
    /\ seed \in Seeds
    /\ \E now \in ClockValues : rngSeed = seedOfDecider(seed, now)
    /\ rngPos = 0
    /\ run = 1
    /\ asked = <<>> /\ nworkers = 0 /\ mu = NoWorker /\ wlock = NoWorker
    /\ wpc = <<>> /\ answers = <<>> /\ callLog = <<>> /\ written = <<>>
    /\ firstRun = [answers |-> <<>>, callLog |-> <<>>]
    /\ chaosCfg \in [PolicyMode : {"all", "first_match"},
                     Policies : SeqsUpTo(TwinPool, MaxPolicies) \ {<<>>}]
    /\ engine = NewEngine(chaosCfg)
    /\ deciderNil = FALSE
    /\ twinBatches \in SeqsUpTo(TwinBatchPool, MaxTwinBatches) \ {<<>>}
    /\ spans = twinBatches[1]
    /\ heap = InputHeap
    /\ out = NilSlice
    /\ writable = NilSlice
    /\ current = NilPtr
    /\ si = 0
    /\ pj = 0
    /\ apc = "call"
    /\ result = Null
    /\ spans0 = spans
    /\ log = <<>>
    /\ twinOut = <<>>
    /\ twinFirst = <<>>

\* one pass of the policy loop with the seeded decider: shouldApplyPolicy calls
\* it only for a matching policy with 0 < p < 1, and the call draws one value
EvalPolicySeeded ==
    /\ apc = "loop"
    /\ pj <= Len(engine.policies)
    /\ LET probability == engine.policies[pj].probability
           r == seededShouldApply(rngSeed, rngPos, probability)
       IN  /\ EvalPair(r.answer)
           /\ IF log'[Len(log')].consulted
              THEN /\ rngPos' = r.pos
                   /\ callLog' = Append(callLog, [worker |-> 1, probability |-> probability,
                                                  answer |-> r.answer])
              ELSE UNCHANGED <<rngPos, callLog>>
    /\ UNCHANGED <<seed, asked, nworkers, run, rngSeed, mu, wlock, wpc, answers, written,
                   firstRun>>
    /\ UNCHANGED <<runVars, laterVars>>

\* the batch the Apply call that just ended returned, maps in place of addresses
ReturnedBatch ==
    LET r == IF result = "out" THEN out ELSE spans
    IN  [i \in 1 .. Len(r) |-> Flat(r[i], heap)]

\* the next Apply call of the engine in use, on batch n
LoadBatch(n) ==
    /\ spans' = twinBatches[n]
    /\ spans0' = twinBatches[n]
    /\ heap' = InputHeap
    /\ out' = NilSlice
    /\ writable' = NilSlice
    /\ current' = NilPtr
    /\ si' = 0
    /\ pj' = 0
    /\ apc' = "call"
    /\ result' = Null
    /\ log' = <<>>
    /\ UNCHANGED <<chaosCfg, engine, deciderNil>>

\* the caller keeps the batch returned and calls Apply on the next batch
TwinNextBatch ==
    /\ apc = "done"
    /\ Len(twinOut) + 1 < Len(twinBatches)
    /\ twinOut' = Append(twinOut, ReturnedBatch)
    /\ LoadBatch(Len(twinOut) + 2)
    /\ UNCHANGED <<twinBatches, twinFirst>>
    /\ UNCHANGED <<runVars, sharedVars, processVars, genVars, validateVars, scenarioVars,
                   mergeVars, dagVars, rebuildVars, edgeVars>>

\* the first engine is through with the batches: a second engine with the same
\* policies and a new decider of the same seed starts on the same batches
TwinSecondEngine ==
    /\ apc = "done"
    /\ run = 1
    /\ Len(twinOut) + 1 = Len(twinBatches)
    /\ twinFirst' = Append(twinOut, ReturnedBatch)
    /\ twinOut' = <<>>
    /\ run' = 2
    /\ firstRun' = [answers |-> <<>>, callLog |-> callLog]
    /\ callLog' = <<>>
    /\ \E now \in ClockValues : rngSeed' = seedOfDecider(seed, now)
    /\ rngPos' = 0
    /\ LoadBatch(1)
    /\ UNCHANGED <<seed, asked, nworkers, mu, wlock, wpc, answers, written>>
    /\ UNCHANGED twinBatches
    /\ UNCHANGED <<runVars, processVars, genVars, validateVars, scenarioVars, mergeVars,
                   dagVars, rebuildVars, edgeVars>>

NextTwin ==
    \/ ApplyEnter
    \/ EvalPolicySeeded
    \/ NextSpan
    \/ ApplyReturn
    \/ TwinNextBatch
    \/ TwinSecondEngine

InitTwin ==
    TwinInit /\ RunIdle /\ ProcessIdle /\ GenIdle /\ ValidateIdle /\ ScenarioIdle /\ MergeIdle /\ DagIdle /\ RebuildIdle /\ EdgeIdle
SpecTwin == InitTwin /\ [][NextTwin]_vars

\* the batches the engine in use has returned, the call that just ended included
TwinReturned == IF apc = "done" THEN Append(twinOut, ReturnedBatch) ELSE twinOut

\* the second engine has returned what the first engine returned, batch by batch
SameOutputs == \A n \in 1 .. Len(TwinReturned) : TwinReturned[n] = twinFirst[n]

\* the second engine is through with the batches
TwinDone == run = 2 /\ apc = "done" /\ Len(twinOut) + 1 = Len(twinBatches)

\* C16 as stated: two deciders created with the same seed, whatever it is, and
\* called with the same sequence of probabilities return the same decisions,
\* and two engines with the same policies applied to the same batches in the
\* same order return the same batches.
C16_Original == (run = 2) => (SameDecisions /\ SameOutputs)

\* C16 amended: two deciders created with the same non-zero seed and called
\* with the same sequence of probabilities return the same sequence of
\* decisions, and two engines with the same policies and such deciders, applied
\* to the same batches in the same order, return the same batches; whatever the
\* seed, two engines whose deciders returned the same decisions returned the
\* same batches. A seed of zero is replaced by the current time and promises
\* nothing.
C16_SeededDeterminism ==
    /\ (run = 2 /\ seed # 0) =>
          /\ rngSeed = seed
          /\ SameDecisions
          /\ SameOutputs
          /\ TwinDone => callLog = firstRun.callLog
    /\ (TwinDone /\ callLog = firstRun.callLog) => SameOutputs

\* the second engine of a non-zero seed is through with two batches: its
\* decider said yes and no as the first engine's did, a policy it said yes to
\* was applied, and the batches returned are those the first engine returned
\* and not the batches handed in
C16_Witness ==
    /\ TwinDone /\ seed # 0
    /\ Len(twinBatches) = 2
    /\ Len(callLog) >= 3
    /\ \E k, m \in 1 .. Len(callLog) : callLog[k].answer /\ ~callLog[m].answer
    /\ callLog = firstRun.callLog
    /\ TwinReturned = twinFirst
    /\ \E n \in 1 .. 2 :
          twinFirst[n] # [i \in 1 .. Len(twinBatches[n]) |-> Flat(twinBatches[n][i], InputHeap)]
    /\ \E k \in 1 .. Len(log) : log[k].consulted /\ log[k].returned /\ log[k].applied

\* ---------------------------------------------------------------------------
\* The span durations of the scenario stage, and the stages side by side
\* ---------------------------------------------------------------------------
\* int64 values (duration_ms, time.Duration in ns) are written as 8 bytes, least
\* significant first, in two's complement; the arithmetic wraps at 2^64
isNegative64(x) == x[8] >= 128

nonPositive64(x) == isNegative64(x) \/ x = uint64(0)

\* x < y for two values of the same sign, from the most significant byte down
RECURSIVE lessFrom(_, _, _)
lessFrom(x, y, i) ==
    IF i = 0 THEN FALSE
    ELSE IF x[i] # y[i] THEN x[i] < y[i]
    ELSE lessFrom(x, y, i - 1)

\* x < y as int64
less64(x, y) ==
    IF isNegative64(x) # isNegative64(y) THEN isNegative64(x) ELSE lessFrom(x, y, 8)

\* time.Millisecond as a time.Duration
Millisecond64 == uint64(Millisecond)

\* duration_ms values of a scenario edge: -1, 0, 1, 2, and 9223372036854,
\* 9223372036855, 3689348814741 and 76480200929599801
DurationMsSamples ==
    {uint64(-1), uint64(0), uint64(1), uint64(2),
     <<246, 90, 208, 123, 99, 8, 0, 0>>, <<247, 90, 208, 123, 99, 8, 0, 0>>,
     <<149, 87, 83, 254, 90, 3, 0, 0>>, <<57, 97, 194, 104, 86, 182, 15, 1>>}

\* Config.Validate on an edge: repeat and duration_ms must be > 0
edgeValidate(e) ==
    IF e.Repeat <= 0 THEN "repeat must be > 0"
    ELSE IF nonPositive64(e.DurationMs) THEN "duration_ms must be > 0"
    ELSE Nil

\* Config.Build: Duration: time.Duration(edge.DurationMs) * time.Millisecond
edgeDuration(e) == mul64(e.DurationMs, Millisecond64)

\* if duration <= 0 { duration = 1 * time.Millisecond }
durationOrOneMs(duration) == IF nonPositive64(duration) THEN Millisecond64 ELSE duration

\* estimateDuration from the root of a definition whose one edge leads to a
\* node without edges (a subtree of 0)
estimateDuration(e) ==
    LET step == add64(add64(durationOrOneMs(edgeDuration(e)), uint64(0)), Millisecond64)
        total == add64(uint64(0), mul64(uint64(e.Repeat), step))
    IN  IF nonPositive64(total) THEN Millisecond64 ELSE total

\* GenerateBatch: if estimated <= 0 { estimated = 100 * time.Millisecond }
estimatedOrDefault(estimated) ==
    IF nonPositive64(estimated) THEN uint64(100 * Millisecond) ELSE estimated

\* scenario newSpan: EndTime is start.Add(duration), so the span lasts duration
spanTimes(duration) == [Duration |-> durationOrOneMs(duration)]

\* emitFromNode on the one edge: each repetition appends one span, or two with
\* the same window
RECURSIVE emitRepeats(_, _, _)
emitRepeats(list, e, i) ==
    IF ~(i < e.Repeat) THEN list
    ELSE LET span == spanTimes(durationOrOneMs(edgeDuration(e)))
             own == IF e.Kind = "internal" THEN <<span>> ELSE <<span, span>>
         IN  emitRepeats(list \o own, e, i + 1)

\* a scenario Config of a root, a second node and one edge between them
EdgeInit ==
    /\ edgeCfg \in [Kind : EdgeKinds, Repeat : {0, 5} \cup RepeatSamples,
                    DurationMs : DurationMsSamples]
    /\ stageSpans = <<>>
    /\ epc = "config"

\* definition, err := cfg.Build()
BuildEdge ==
    /\ epc = "config"
    /\ epc' = IF edgeValidate(edgeCfg) = Nil THEN "built" ELSE "rejected"
    /\ UNCHANGED <<edgeCfg, stageSpans>>
    /\ UNCHANGED exceptEdge

\* GenerateBatch: the root span over the estimated duration, then the edge's spans
GenerateEdgeSpans ==
    /\ epc = "built"
    /\ stageSpans' = emitRepeats(<<spanTimes(estimatedOrDefault(estimateDuration(edgeCfg)))>>,
                                 edgeCfg, 0)
    /\ epc' = "generated"
    /\ UNCHANGED edgeCfg
    /\ UNCHANGED exceptEdge

NextEdge == BuildEdge \/ GenerateEdgeSpans

InitEdge ==
    EdgeInit /\ RunIdle /\ ChaosIdle /\ SharedIdle /\ ProcessIdle /\ GenIdle /\ ValidateIdle /\ ScenarioIdle /\ MergeIdle /\ DagIdle /\ RebuildIdle /\ TwinIdle

\* one stage at a time: the trace generator, the scenario generator, or the
\* action loop of the chaos engine on a span
InitStages == InitGenFair \/ InitEdge \/ InitActions
NextStages == NextGen \/ NextEdge \/ NextActions
SpecStages == InitStages /\ [][NextStages]_vars

\* the largest duration_ms whose product with time.Millisecond fits an int64
MaxWholeMs == <<246, 90, 208, 123, 99, 8, 0, 0>>

\* adding step to acc n times leaves the int64 range at some point
RECURSIVE sumOverflows(_, _, _)
sumOverflows(step, acc, n) ==
    IF n = 0 THEN FALSE
    ELSE LET s == add64(acc, step)
         IN  isNegative64(s) \/ sumOverflows(step, s, n - 1)

\* a computation on the edge's durations leaves the int64 range: Build's
\* product, or the step or the total of estimateDuration
DurationOverflows(e) ==
    \/ less64(MaxWholeMs, e.DurationMs)
    \/ LET step == add64(edgeDuration(e), Millisecond64)
       IN  isNegative64(step) \/ sumOverflows(step, uint64(0), e.Repeat)

\* the span lasts 1 ms or longer
AtLeastOneMs(span) == ~less64(span.Duration, Millisecond64)

====
